---- MODULE Spec2Model ----
(***************************************************************************)
(* Prior / posterior registry of EOS (eos/statistics/log-prior.cc and      *)
(* eos/statistics/log-posterior.cc).                                       *)
(*                                                                         *)
(* A parameter store maps names to scalar values; a Parameter handle is a  *)
(* pair (store, name).  Real-valued quantities are carried as integers:    *)
(* ranges and values are small integers, log-densities are integers in     *)
(* units of one half (so that 0.5 * chi^2 stays integral).                 *)
(***************************************************************************)
EXTENDS Integers, Sequences, FiniteSets, TLC

\* ---------------------------------------------------------------- bounds
MaxAdds == 2      \* calls of LogPosterior::add made by the caller
MaxSets == 1      \* calls that write a parameter value (set / sample)

\* ------------------------------------------------------------- universes
Names == {"a", "b"}
\* S1: store of the original's likelihood; S2: store owned by the
\* likelihood's clone
Stores == {"S1", "S2"}
Values == {0, 2}
Draws == {0, 1}
PostIds == {"orig", "clone"}

VARIABLES posts, vals, last, nadds, nsets

vars == <<posts, vals, last, nadds, nsets>>

\* --------------------------------------------------------------- helpers
RECURSIVE SeqSum(_)
SeqSum(s) == IF s = <<>> THEN 0 ELSE Head(s) + SeqSum(Tail(s))

Range(s) == {s[i] : i \in 1 .. Len(s)}

\* std::numeric_limits<double>::max(), the bound of a multivariate range
inf == 1000

\* -std::numeric_limits<double>::infinity(), absorbing under addition
NegInf == -100000

\* ParameterDescription{ parameter, min, max, nuisance }; the parameter
\* handle is the pair (store, name)
ParameterDescription(store, name, min, max, nuisance) ==
    [store |-> store, name |-> name, min |-> min, max |-> max,
     nuisance |-> nuisance]

\* ------------------------------------------------------ prior variants
\* A prior object: its configuration, the store it closes over and the
\* descriptions it contributes.
Prior(kind, store, names, range, knee, scale, mean, descs) ==
    [kind |-> kind, store |-> store, names |-> names, range |-> range,
     knee |-> knee, scale |-> scale, mean |-> mean, descs |-> descs]

NoKnee == <<0, 0, 0>>
NoScale == <<0, 0>>

Flat(parameters, name, range) ==
    Prior("Flat", parameters, <<name>>, range, NoKnee, NoScale, <<>>,
          <<ParameterDescription(parameters, name, range[1], range[2], FALSE)>>)

CurtailedGauss(parameters, name, range, lower, central, upper) ==
    Prior("CurtailedGauss", parameters, <<name>>, range,
          <<lower, central, upper>>, NoScale, <<>>,
          <<ParameterDescription(parameters, name, range[1], range[2], FALSE)>>)

Scale(parameters, name, range, mu_0, lambda) ==
    Prior("Scale", parameters, <<name>>, range, NoKnee, <<mu_0, lambda>>, <<>>,
          <<ParameterDescription(parameters, name, mu_0 \div lambda,
                                 mu_0 * lambda, FALSE)>>)

\* the covariance is the identity matrix of dimension Len(names)
MultivariateGaussian(parameters, names, mean) ==
    Prior("MultivariateGaussian", parameters, names, <<0 - inf, inf>>,
          NoKnee, NoScale, mean,
          [i \in 1 .. Len(names) |->
              ParameterDescription(parameters, names[i], 0 - inf, inf, FALSE)])

\* virtual bool informative() const
informative(prior) == prior.kind # "Flat"

\* clone() returning a prior still bound to the store of the original
PriorCloneSameStore(prior, parameters) == prior

\* virtual LogPriorPtr clone(const Parameters & parameters) const
PriorClone(prior, parameters) ==
    CASE prior.kind = "Flat" ->
            Flat(parameters, prior.names[1], prior.range)
      [] prior.kind = "CurtailedGauss" ->
            CurtailedGauss(parameters, prior.names[1], prior.range,
                           prior.knee[1], prior.knee[2], prior.knee[3])
      [] prior.kind = "Scale" ->
            Scale(parameters, prior.names[1], prior.range,
                  prior.scale[1], prior.scale[2])
      [] prior.kind = "MultivariateGaussian" ->
            MultivariateGaussian(parameters, prior.names, prior.mean)

\* The priors a caller constructs through the factory functions.
UnitRange == <<0, 2>>

CallerPriors ==
    {Flat(s, "a", UnitRange) : s \in Stores}
    \cup {CurtailedGauss(s, "a", UnitRange, 0, 1, 2) : s \in Stores}
    \cup {Scale(s, "b", UnitRange, 2, 2) : s \in Stores}
    \cup {MultivariateGaussian(s, names, <<1, 1>>) :
             s \in Stores, names \in {<<"a", "b">>, <<"a", "a">>}}

\* ------------------------------------------------------------ posterior
\* LogPosterior::LogPosterior(const LogLikelihood &)
NewPosterior(store) ==
    [exists |-> TRUE, store |-> store, descs |-> <<>>, names |-> {},
     priors |-> <<>>, informative_priors |-> 0]

NoPosterior ==
    [exists |-> FALSE, store |-> "S2", descs |-> <<>>, names |-> {},
     priors |-> <<>>, informative_priors |-> 0]

\* AddLoop with the description pushed before the result of the insert is
\* looked at
RECURSIVE AddLoopPushFirst(_, _, _, _, _)
AddLoopPushFirst(pd, k, nuisance, descs, names) ==
    IF k > Len(pd)
    THEN [ok |-> TRUE, descs |-> descs, names |-> names, pd |-> pd]
    ELSE IF pd[k].name \in names
         THEN [ok |-> FALSE,
               descs |-> Append(descs, [pd[k] EXCEPT !.nuisance = nuisance]),
               names |-> names, pd |-> pd]
         ELSE AddLoopPushFirst([pd EXCEPT ![k].nuisance = nuisance], k + 1, nuisance,
                      Append(descs, [pd[k] EXCEPT !.nuisance = nuisance]),
                      names \cup {pd[k].name})

\* AddLoop without the assignment d->nuisance = nuisance
RECURSIVE AddLoopKeepNuisance(_, _, _, _, _)
AddLoopKeepNuisance(pd, k, nuisance, descs, names) ==
    IF k > Len(pd)
    THEN [ok |-> TRUE, descs |-> descs, names |-> names, pd |-> pd]
    ELSE IF pd[k].name \in names
         THEN [ok |-> FALSE, descs |-> descs, names |-> names, pd |-> pd]
         ELSE AddLoopKeepNuisance(pd, k + 1, nuisance, Append(descs, pd[k]),
                                  names \cup {pd[k].name})

\* the for loop of LogPosterior::add over the descriptions of the prior
\* passed in: pd are its descriptions, k the position of the iterator
RECURSIVE AddLoop(_, _, _, _, _)
AddLoop(pd, k, nuisance, descs, names) ==
    IF k > Len(pd)
    THEN [ok |-> TRUE, descs |-> descs, names |-> names, pd |-> pd]
    ELSE IF pd[k].name \in names
         THEN [ok |-> FALSE, descs |-> descs, names |-> names, pd |-> pd]
         ELSE AddLoop([pd EXCEPT ![k].nuisance = nuisance], k + 1, nuisance,
                      Append(descs, [pd[k] EXCEPT !.nuisance = nuisance]),
                      names \cup {pd[k].name})

\* the increment read as (_informative_priors += 1)
InformativeIncrementOne(prior) == 1

\* _informative_priors += 1 ? prior->informative() : 0;
InformativeIncrement(prior) ==
    IF 1 # 0 THEN (IF informative(prior) THEN 1 ELSE 0) ELSE 0

\* bool LogPosterior::add(const LogPriorPtr & prior, bool nuisance)
AddOp(P, prior, nuisance) ==
    LET prior_clone == PriorClone(prior, P.store)
        r == AddLoop(prior.descs, 1, nuisance, P.descs, P.names)
    IN  [post |-> [P EXCEPT !.informative_priors = @ + InformativeIncrement(prior),
                            !.descs = r.descs,
                            !.names = r.names,
                            !.priors = IF r.ok THEN Append(@, prior_clone) ELSE @],
         ret |-> r.ok,
         pd |-> r.pd]

\* ----------------------------------------------------------- evaluation
\* integer logarithm to base 2, standing for std::log
RECURSIVE ILog(_)
ILog(n) == IF n <= 1 THEN 0 ELSE 1 + ILog(n \div 2)

\* double addition with -infinity absorbing
Plus(x, y) == IF x = NegInf \/ y = NegInf THEN NegInf ELSE x + y

\* Parameter::evaluate() of the handle (store, name)
Value(v, store, name) == v[store][name]

\* Flat::operator(): _value = log(1 / (max - min)), whatever the value
FlatEvaluate(prior, v) == 0 - 2 * ILog(prior.range[2] - prior.range[1])

\* CurtailedGauss::operator(): both log-normalisations are log(c / sigma)
\* with c_b = sigma_lower / sigma_upper * c_a; c_a is carried as sigma_upper
CurtailedGaussEvaluate(prior, v) ==
    LET central == prior.knee[2]
        sigma_lower == central - prior.knee[1]
        sigma_upper == prior.knee[3] - central
        c_a == sigma_upper
        c_b == (sigma_lower * c_a) \div sigma_upper
        norm_lower == 2 * ILog(c_b \div sigma_lower)
        norm_upper == 2 * ILog(c_a \div sigma_upper)
        x == Value(v, prior.descs[1].store, prior.descs[1].name)
        sigma == IF x < central THEN sigma_lower ELSE sigma_upper
        norm == IF x < central THEN norm_lower ELSE norm_upper
        z == (x - central) \div sigma
    IN  norm - z * z

\* Scale::operator() with the two bounds themselves out of range
ScaleEvaluateOpen(prior, v) ==
    LET mu_0 == prior.scale[1]
        lambda == prior.scale[2]
        x == Value(v, prior.descs[1].store, prior.descs[1].name)
    IN  IF x <= mu_0 \div lambda \/ mu_0 * lambda <= x
        THEN NegInf
        ELSE 4 \div (ILog(lambda) * x)

\* Scale::operator(): 1 / (2 ln(lambda) x) inside [mu_0/lambda, mu_0*lambda]
ScaleEvaluate(prior, v) ==
    LET mu_0 == prior.scale[1]
        lambda == prior.scale[2]
        x == Value(v, prior.descs[1].store, prior.descs[1].name)
    IN  IF x < mu_0 \div lambda \/ mu_0 * lambda < x
        THEN NegInf
        ELSE 4 \div (ILog(lambda) * x)

\* MultivariateGaussian::operator(): norm - 0.5 * chi^2 with the inverse
\* covariance the identity; reads _parameters[i] of the prior's own store
MultivariateGaussianEvaluate(prior, v) ==
    LET dim == Len(prior.names)
        norm == 0 - dim * ILog(6)
        sq(i) == (prior.mean[i] - Value(v, prior.store, prior.names[i]))
                 * (prior.mean[i] - Value(v, prior.store, prior.names[i]))
    IN  norm - SeqSum([i \in 1 .. dim |-> sq(i)])

\* virtual double operator()() const
Evaluate(prior, v) ==
    CASE prior.kind = "Flat" -> FlatEvaluate(prior, v)
      [] prior.kind = "CurtailedGauss" -> CurtailedGaussEvaluate(prior, v)
      [] prior.kind = "Scale" -> ScaleEvaluate(prior, v)
      [] prior.kind = "MultivariateGaussian" -> MultivariateGaussianEvaluate(prior, v)

\* LogPriorLoop with result = instead of result +=
RECURSIVE LogPriorLoopOverwrite(_, _, _, _, _)
LogPriorLoopOverwrite(priors, k, result, trace, v) ==
    IF k > Len(priors)
    THEN [val |-> result, trace |-> trace]
    ELSE LogPriorLoopOverwrite(priors, k + 1, Evaluate(priors[k], v),
                               Append(trace, k), v)

\* the for loop of LogPosterior::log_prior() over _priors; trace lists the
\* positions of the priors whose operator() was called
RECURSIVE LogPriorLoop(_, _, _, _, _)
LogPriorLoop(priors, k, result, trace, v) ==
    IF k > Len(priors)
    THEN [val |-> result, trace |-> trace]
    ELSE LogPriorLoop(priors, k + 1, Plus(result, Evaluate(priors[k], v)),
                      Append(trace, k), v)

\* double LogPosterior::log_prior() const
LogPriorOp(P, v) ==
    IF P.priors = <<>>
    THEN [ok |-> FALSE, val |-> 0, trace |-> <<>>]
    ELSE LET r == LogPriorLoop(P.priors, 1, 0, <<>>, v)
         IN  [ok |-> TRUE, val |-> r.val, trace |-> r.trace]

\* IndexLoop with result incremented before the comparison
RECURSIVE IndexLoopOffByOne(_, _, _)
IndexLoopOffByOne(descs, name, result) ==
    IF result >= Len(descs)
    THEN [ok |-> FALSE, val |-> result]
    ELSE IF name = descs[result + 1].name
         THEN [ok |-> TRUE, val |-> result + 1]
         ELSE IndexLoopOffByOne(descs, name, result + 1)

\* the for loop of LogPosterior::index(): result counts from 0
RECURSIVE IndexLoop(_, _, _)
IndexLoop(descs, name, result) ==
    IF result >= Len(descs)
    THEN [ok |-> FALSE, val |-> result]
    ELSE IF name = descs[result + 1].name
         THEN [ok |-> TRUE, val |-> result]
         ELSE IndexLoop(descs, name, result + 1)

\* unsigned LogPosterior::index(const std::string & name) const
IndexOp(P, name) == IndexLoop(P.descs, name, 0)

\* bool LogPosterior::nuisance(const std::string & par_name) const
NuisanceOp(P, par_name) ==
    LET index == IndexOp(P, par_name)
    IN  IF ~index.ok
        THEN [ok |-> FALSE, flag |-> FALSE, val |-> index.val]
        ELSE IF index.val >= Len(P.descs)
             THEN [ok |-> TRUE, flag |-> FALSE, val |-> index.val]
             ELSE [ok |-> TRUE, flag |-> P.descs[index.val + 1].nuisance,
                   val |-> index.val]

\* LogPriorPtr LogPosterior::log_prior(const std::string & name) const:
\* position in _priors of the last prior with a description of that name,
\* 0 for the null pointer
RECURSIVE LogPriorByName(_, _, _, _)
LogPriorByName(priors, name, k, found) ==
    IF k > Len(priors)
    THEN found
    ELSE LogPriorByName(priors, name, k + 1,
                        IF \E i \in 1 .. Len(priors[k].descs) :
                              priors[k].descs[i].name = name
                        THEN k ELSE found)

\* ------------------------------------------------------------- sampling
\* the value sample() computes from the draw u of evaluate_generator();
\* u = 0 and u = 1 stand for the two ends of the unit interval
SampleValue(prior, i, u) ==
    CASE prior.kind = "Flat" ->
            u * (prior.range[2] - prior.range[1]) + prior.range[1]
      [] prior.kind = "CurtailedGauss" ->
            IF u < 1 THEN prior.knee[1] ELSE prior.knee[3]
      [] prior.kind = "Scale" ->
            IF u < 1 THEN prior.scale[1] \div prior.scale[2]
                     ELSE prior.scale[1] * prior.scale[2]
      [] prior.kind = "MultivariateGaussian" ->
            prior.mean[i] + (2 * u - 1)

\* virtual void sample(): writes _parameter (resp. _parameters[i]), the
\* handles resolved in the prior's own store
RECURSIVE SampleLoop(_, _, _, _)
SampleLoop(prior, i, us, v) ==
    IF i > Len(prior.names)
    THEN v
    ELSE SampleLoop(prior, i + 1, us,
                    [v EXCEPT ![prior.store][prior.names[i]] =
                                 SampleValue(prior, i, us[i])])

SampleOp(prior, us, v) == SampleLoop(prior, 1, us, v)

\* sample() taking a single draw, from its first parameter
SampleTraceOneDraw(prior) ==
    <<<<"draw", prior.store, prior.names[1]>>>>
    \o [i \in 1 .. Len(prior.names) |-> <<"set", prior.store, prior.names[i]>>]

\* the calls sample() makes on its parameter handles, in order: Flat,
\* CurtailedGauss and Scale call evaluate_generator() and set() once on
\* _parameter; MultivariateGaussian runs one loop of evaluate_generator()
\* over _parameters and then one loop of set()
SampleTrace(prior) ==
    [i \in 1 .. Len(prior.names) |-> <<"draw", prior.store, prior.names[i]>>]
    \o [i \in 1 .. Len(prior.names) |-> <<"set", prior.store, prior.names[i]>>]

\* ---------------------------------------------------------------- clone
\* bool add(const LogPriorPtr &, bool nuisance = false) as called by
\* private_clone with one argument
DefaultNuisance == FALSE

\* the loop of private_clone re-adding clones of the kept priors
RECURSIVE CloneAddLoop(_, _, _)
CloneAddLoop(priors, k, result) ==
    IF k > Len(priors)
    THEN result
    ELSE CloneAddLoop(priors, k + 1,
                      AddOp(result, PriorClone(priors[k], result.store),
                            DefaultNuisance).post)

\* the loop of private_clone copying min, max and nuisance; i runs over the
\* original's descriptions and j over the clone's.  overrun: j was
\* dereferenced at or past result->_parameter_descriptions.end()
RECURSIVE CloneCopyLoop(_, _, _, _)
CloneCopyLoop(descs, i, rdescs, overrun) ==
    IF i > Len(descs)
    THEN [descs |-> rdescs, overrun |-> overrun]
    ELSE IF i > Len(rdescs)
         THEN CloneCopyLoop(descs, i + 1, rdescs, TRUE)
         ELSE CloneCopyLoop(descs, i + 1,
                            [rdescs EXCEPT ![i].min = descs[i].min,
                                           ![i].max = descs[i].max,
                                           ![i].nuisance = descs[i].nuisance],
                            overrun)

\* LogPosterior * LogPosterior::private_clone() const
PrivateClone(P, store) ==
    LET result == CloneAddLoop(P.priors, 1, NewPosterior(store))
        c == CloneCopyLoop(P.descs, 1, result.descs, FALSE)
    IN  [post |-> [result EXCEPT !.descs = c.descs], overrun |-> c.overrun]

\* LogLikelihood::clone(): the copy owns a store of its own holding the
\* current values
LikelihoodClone(v, from, to) == [v EXCEPT ![to] = v[from]]

\* ------------------------------------------------------- call records
NoPrior == Prior("none", "S1", <<>>, <<0, 0>>, NoKnee, NoScale, <<>>, <<>>)

\* the last call: its operation, receiver and arguments, whether it
\* returned normally (ok), its result (ret, val, trace) and, for add, the
\* descriptions of the prior passed in as the call left them (pd)
Call(op, post, prior, nuisance, name, ok, ret, val, trace, pd) ==
    [op |-> op, post |-> post, prior |-> prior, nuisance |-> nuisance,
     name |-> name, ok |-> ok, ret |-> ret, val |-> val, trace |-> trace,
     pd |-> pd]

Init ==
    /\ posts = [p \in PostIds |-> IF p = "orig" THEN NewPosterior("S1") ELSE NoPosterior]
    /\ vals = [s \in Stores |-> [n \in Names |-> 1]]
    /\ last = Call("init", "orig", NoPrior, FALSE, "a", TRUE, FALSE, 0, <<>>, <<>>)
    /\ nadds = 0
    /\ nsets = 0

\* the process has not been ended by undefined behaviour
Running == last.op = "clone" => last.ok

\* post.add(prior, nuisance)
Add(p, prior, nuisance) ==
    /\ Running
    /\ posts[p].exists
    /\ prior.store = "S2" => posts["clone"].exists
    /\ nadds < MaxAdds
    /\ LET r == AddOp(posts[p], prior, nuisance)
       IN  /\ posts' = [posts EXCEPT ![p] = r.post]
           /\ last' = Call("add", p, prior, nuisance, "a", TRUE, r.ret, 0, <<>>, r.pd)
    /\ nadds' = nadds + 1
    /\ UNCHANGED <<vals, nsets>>

\* orig.clone(), for the one clone the model follows; writing through j
\* past the end of the clone's vector is undefined: the call either ends
\* the process (no clone is returned) or returns with the vector as the
\* in-range writes left it
Clone ==
    /\ Running
    /\ ~posts["clone"].exists
    /\ LET r == PrivateClone(posts["orig"], "S2")
       IN  \E outcome \in {"returns", "crashes"} :
              /\ outcome = "crashes" => r.overrun
              /\ posts' = [posts EXCEPT !["clone"] =
                              IF outcome = "returns" THEN r.post ELSE NoPosterior]
              /\ last' = Call("clone", "orig", NoPrior, FALSE, "a",
                              outcome = "returns", r.overrun, 0, <<>>, <<>>)
    /\ vals' = LikelihoodClone(vals, "S1", "S2")
    /\ UNCHANGED <<nadds, nsets>>

\* (*post)[index]->set(value)
SetParam(p, index, value) ==
    /\ Running
    /\ posts[p].exists
    /\ nsets < MaxSets
    /\ index < Len(posts[p].descs)
    /\ LET d == posts[p].descs[index + 1]
       IN  /\ vals' = [vals EXCEPT ![d.store][d.name] = value]
           /\ last' = Call("set", p, NoPrior, FALSE, "a", TRUE, FALSE, 0, <<>>, <<>>)
    /\ nsets' = nsets + 1
    /\ UNCHANGED <<posts, nadds>>

\* post.log_prior(name)->sample()
Sample(p, name, us) ==
    /\ Running
    /\ posts[p].exists
    /\ nsets < MaxSets
    /\ LET k == LogPriorByName(posts[p].priors, name, 1, 0)
       IN  /\ k > 0
           /\ Len(us) = Len(posts[p].priors[k].names)
           /\ vals' = SampleOp(posts[p].priors[k], us, vals)
           /\ last' = Call("sample", p, NoPrior, FALSE, "a", TRUE, FALSE, 0, <<>>, <<>>)
    /\ nsets' = nsets + 1
    /\ UNCHANGED <<posts, nadds>>

\* post.log_prior()
LogPrior(p) ==
    /\ Running
    /\ posts[p].exists
    /\ LET r == LogPriorOp(posts[p], vals)
       IN  last' = Call("log_prior", p, NoPrior, FALSE, "a", r.ok, FALSE,
                        r.val, r.trace, <<>>)
    /\ UNCHANGED <<posts, vals, nadds, nsets>>

\* post.index(name)
Index(p, name) ==
    /\ Running
    /\ posts[p].exists
    /\ LET r == IndexOp(posts[p], name)
       IN  last' = Call("index", p, NoPrior, FALSE, name, r.ok, FALSE,
                        r.val, <<>>, <<>>)
    /\ UNCHANGED <<posts, vals, nadds, nsets>>

\* post.nuisance(name)
Nuisance(p, name) ==
    /\ Running
    /\ posts[p].exists
    /\ LET r == NuisanceOp(posts[p], name)
       IN  last' = Call("nuisance", p, NoPrior, FALSE, name, r.ok, r.flag,
                        r.val, <<>>, <<>>)
    /\ UNCHANGED <<posts, vals, nadds, nsets>>

\* the operations that change a Posterior or a parameter value
Next ==
    \/ \E p \in PostIds, prior \in CallerPriors, nuisance \in BOOLEAN :
          Add(p, prior, nuisance)
    \/ Clone
    \/ \E p \in PostIds, index \in 0 .. 3, value \in Values :
          SetParam(p, index, value)

Spec == Init /\ [][Next]_vars

\* a Posterior built by add whose priors are sampled
NextSample ==
    \/ \E p \in PostIds, prior \in CallerPriors, nuisance \in BOOLEAN :
          Add(p, prior, nuisance)
    \/ \E p \in PostIds, name \in Names, us \in [1 .. 1 -> Draws] \cup [1 .. 2 -> Draws] :
          Sample(p, name, us)

SpecSample == Init /\ [][NextSample]_vars

\* the read-only accessors, called on a Posterior built by add and set
NextQuery ==
    \/ \E p \in PostIds, prior \in CallerPriors, nuisance \in BOOLEAN :
          Add(p, prior, nuisance)
    \/ \E p \in PostIds, index \in 0 .. 3, value \in Values :
          SetParam(p, index, value)
    \/ \E p \in PostIds : LogPrior(p)
    \/ \E p \in PostIds, name \in Names : Index(p, name)
    \/ \E p \in PostIds, name \in Names : Nuisance(p, name)

SpecQuery == Init /\ [][NextQuery]_vars

\* ------------------------------------------------------------ properties
\* (name, min, max) of each description, in order
Keys(descs) ==
    [i \in 1 .. Len(descs) |-> <<descs[i].name, descs[i].min, descs[i].max>>]

\* (name, min, max, nuisance) of each description, in order
Tuples(descs) ==
    [i \in 1 .. Len(descs) |->
        <<descs[i].name, descs[i].min, descs[i].max, descs[i].nuisance>>]

RECURSIVE Concat(_)
Concat(ss) == IF ss = <<>> THEN <<>> ELSE Head(ss) \o Concat(Tail(ss))

\* the descriptions contributed by the kept priors, in add order
KeptKeys(P) == Concat([k \in 1 .. Len(P.priors) |-> Keys(P.priors[k].descs)])

\* the names the kept priors read
KeptNames(P) == UNION {Range(P.priors[k].names) : k \in 1 .. Len(P.priors)}

NamesPrior(prior) == Range(prior.names)

\* C1: an add of a prior naming an already registered parameter returns
\* false and leaves descriptions, seen names and kept priors unchanged.
C1_RejectedAddLeavesRegistry ==
    [][(last'.op = "add" /\ NamesPrior(last'.prior) \cap posts[last'.post].names # {})
        => /\ last'.ret = FALSE
           /\ posts'[last'.post].descs = posts[last'.post].descs
           /\ posts'[last'.post].names = posts[last'.post].names
           /\ posts'[last'.post].priors = posts[last'.post].priors]_vars

\* C2: the description list is the concatenation, in add order, of the
\* descriptions of the kept priors.
C2_DescriptionsAreConcatenation ==
    \A p \in PostIds : Keys(posts[p].descs) = KeptKeys(posts[p])

\* C3: no two descriptions carry the same name, and the set of seen names
\* is the set of names of the registered descriptions.
C3_NamesUnique ==
    \A p \in PostIds :
        /\ \A i, j \in 1 .. Len(posts[p].descs) :
              posts[p].descs[i].name = posts[p].descs[j].name => i = j
        /\ posts[p].names = {posts[p].descs[i].name : i \in 1 .. Len(posts[p].descs)}

\* a rejected add that had already registered a name, and a second
\* registration of the same name was refused
C3_Witness ==
    /\ last.op = "add"
    /\ ~last.ret
    /\ Len(posts[last.post].descs) > Len(KeptKeys(posts[last.post]))
    /\ Cardinality(posts[last.post].names) = 2

\* C4: every description of a Posterior refers to a parameter of the
\* Posterior's own store, also when the prior added was constructed
\* against another store.
C4_DescriptionsBoundToOwnStore ==
    \A p \in PostIds : \A i \in 1 .. Len(posts[p].descs) :
        posts[p].descs[i].store = posts[p].store

\* C5: a successful add appends the prior's descriptions in the prior's
\* order with the supplied nuisance flag, appends exactly one prior, the
\* clone bound to the Posterior's store, and leaves the earlier
\* descriptions and priors as they were.
C5_SuccessfulAddAppends ==
    [][(last'.op = "add" /\ last'.ret)
        => LET P == posts[last'.post]
               R == posts'[last'.post]
               pr == last'.prior
               n == Len(pr.names)
           IN  /\ Len(R.descs) = Len(P.descs) + n
               /\ SubSeq(R.descs, 1, Len(P.descs)) = P.descs
               /\ \A i \in 1 .. n :
                     /\ R.descs[Len(P.descs) + i].name = pr.names[i]
                     /\ R.descs[Len(P.descs) + i].min = pr.descs[i].min
                     /\ R.descs[Len(P.descs) + i].max = pr.descs[i].max
                     /\ R.descs[Len(P.descs) + i].nuisance = last'.nuisance
               /\ Len(R.priors) = Len(P.priors) + 1
               /\ SubSeq(R.priors, 1, Len(P.priors)) = P.priors
               /\ R.priors[Len(R.priors)].kind = pr.kind
               /\ R.priors[Len(R.priors)].names = pr.names
               /\ R.priors[Len(R.priors)].store = P.store]_vars

\* a successful add with nuisance = true on a Posterior that already had a
\* description
C5_Witness ==
    /\ last.op = "add"
    /\ last.ret
    /\ last.nuisance
    /\ Len(posts[last.post].descs) > Len(last.prior.names)
    /\ posts[last.post].descs[Len(posts[last.post].descs)].nuisance

\* C6: every add of an informative prior increases informative_priors by
\* exactly 1 and every add of a Flat prior leaves it unchanged, whatever
\* add returns.
C6_InformativeCountsCalls ==
    [][last'.op = "add"
        => posts'[last'.post].informative_priors
              = posts[last'.post].informative_priors
                + (IF last'.prior.kind = "Flat" THEN 0 ELSE 1)]_vars

\* a rejected add of an informative prior was counted
C6_Witness ==
    /\ last.op = "add"
    /\ ~last.ret
    /\ last.prior.kind # "Flat"
    /\ posts[last.post].informative_priors = 2
    /\ Len(posts[last.post].priors) = 1

\* C7: clone() returns a Posterior with the same (name, min, max, nuisance)
\* tuples in the same order, and the copy loop stays inside the clone's
\* description list.
C7_CloneRoundTrip ==
    last.op = "clone"
        => /\ last.ok
           /\ ~last.ret
           /\ Tuples(posts["clone"].descs) = Tuples(posts["orig"].descs)

\* C8: a Posterior and its clone share no mutable state: an add, set or
\* sample on one leaves the other's registry and the values its priors
\* read unchanged.
C8_CloneIsolation ==
    [][(last'.op \in {"add", "set", "sample"}
          /\ posts["orig"].exists /\ posts["clone"].exists)
        => LET q == IF last'.post = "orig" THEN "clone" ELSE "orig"
           IN  /\ posts'[q] = posts[q]
               /\ \A n \in KeptNames(posts[q]) :
                     vals'[posts[q].store][n] = vals[posts[q].store][n]]_vars

\* the number of informative priors a Posterior keeps
KeptInformative(P) ==
    Cardinality({k \in 1 .. Len(P.priors) : informative(P.priors[k])})

\* C30: the informative_priors of a Posterior returned by clone() is the
\* number of informative priors the original keeps; it is never above the
\* original's informative_priors, equals it when every add on the original
\* was accepted, and in general equals it exactly when the original's
\* counter, which counts every add of an informative prior (C6), counts
\* kept priors only
C30_CloneInformativeCount ==
    (last.op = "clone" /\ last.ok) =>
        /\ posts["clone"].informative_priors = KeptInformative(posts["orig"])
        /\ posts["clone"].informative_priors <= posts["orig"].informative_priors
        /\ nadds = Len(posts["orig"].priors) =>
              posts["clone"].informative_priors = posts["orig"].informative_priors
        /\ posts["clone"].informative_priors = posts["orig"].informative_priors
              <=> posts["orig"].informative_priors = KeptInformative(posts["orig"])

\* the clone of a Posterior that keeps one informative prior and has
\* rejected the add of another counts one where the original counts two
C30_Witness ==
    /\ last.op = "clone"
    /\ last.ok
    /\ Len(posts["orig"].priors) = 1
    /\ posts["clone"].informative_priors = 1
    /\ posts["orig"].informative_priors = 2

\* the sum of evaluate() over the kept priors
ExpectedLogPrior(P, v) ==
    IF \E k \in 1 .. Len(P.priors) : Evaluate(P.priors[k], v) = NegInf
    THEN NegInf
    ELSE SeqSum([k \in 1 .. Len(P.priors) |-> Evaluate(P.priors[k], v)])

\* C9: log_prior() fails exactly when no prior is kept; otherwise it
\* returns the sum of evaluate() over the kept priors, each evaluated
\* once, and changes neither a parameter value nor the registry.
C9_LogPriorSum ==
    [][last'.op = "log_prior"
        => LET P == posts[last'.post]
           IN  /\ last'.ok <=> P.priors # <<>>
               /\ last'.ok => /\ last'.val = ExpectedLogPrior(P, vals)
                              /\ last'.trace = [k \in 1 .. Len(P.priors) |-> k]
               /\ posts' = posts
               /\ vals' = vals]_vars

\* log_prior() summed two kept priors with a value off its default
C9_Witness ==
    /\ last.op = "log_prior"
    /\ last.ok
    /\ Len(posts[last.post].priors) = 2
    /\ last.val < 0
    /\ \E n \in Names : vals[posts[last.post].store][n] # 1

\* C10: index(name) returns the position of the first description of that
\* name, always below the number of descriptions, and fails exactly when
\* no description has that name.
C10_IndexFindsFirst ==
    /\ last.op = "index"
        => LET descs == posts[last.post].descs
           IN  /\ last.ok <=> \E i \in 1 .. Len(descs) : descs[i].name = last.name
               /\ last.ok => /\ last.val < Len(descs)
                             /\ descs[last.val + 1].name = last.name
                             /\ \A j \in 1 .. last.val : descs[j].name # last.name
    /\ last.op = "nuisance"
        => LET descs == posts[last.post].descs
           IN  /\ last.ok <=> \E i \in 1 .. Len(descs) : descs[i].name = last.name
               /\ last.ok => /\ last.val < Len(descs)
                             /\ last.ret = descs[last.val + 1].nuisance

\* index() found a name at the second position
C10_Witness ==
    /\ last.op = "index"
    /\ last.ok
    /\ last.val = 1


\* ---------------------------------------------------------------- optimize
\* the priors added to a Posterior that is optimized or tested for goodness
\* of fit: one of each range shape, all over the Posterior's own store
OwnPriors ==
    {prior \in CallerPriors :
        /\ prior.store = "S1"
        /\ prior.kind \in {"Flat", "Scale", "MultivariateGaussian"}
        /\ prior.names # <<"a", "a">>}

MaxIterations == 2   \* largest options.maximum_iterations a caller passes

\* starting points a caller passes to optimize
Guesses == {<<>>, <<0>>, <<2>>, <<0, 2>>}

\* values minim->fval can hold when it is read before any iteration wrote it
Garbage == {-7, 7}

\* the points of dimension n the simplex can visit
TrialPoints(n) == [1 .. n -> Values]

\* unary minus of a double; -(-infinity) is +infinity
Negate(x) == 0 - x

\* the likelihood functor, a black box of the parameter values
LogLikelihood(v, store) == 0 - (v[store]["a"] + 2 * v[store]["b"])

\* the write loop of negative_log_posterior / goodness_of_fit:
\* descriptions[i - 1].parameter->set(pars[i - 1]) for i = k .. upto
RECURSIVE SetAll(_, _, _, _, _)
SetAll(descs, pars, k, upto, v) ==
    IF k > upto THEN v
    ELSE SetAll(descs, pars, k + 1, upto,
                [v EXCEPT ![descs[k].store][descs[k].name] = pars[k]])

\* negative_log_posterior evaluating at pars without writing the parameters
NegativeLogPosteriorDetached(P, v, pars) ==
    LET w == SetAll(P.descs, pars, 1, Len(P.descs), v)
        lp == LogPriorOp(P, w)
    IN  [ok |-> lp.ok,
         val |-> IF lp.ok THEN Negate(Plus(lp.val, LogLikelihood(w, P.store))) ELSE 0,
         vals |-> v]

\* negative_log_posterior(pars, this): writes every parameter, then
\* -(log_prior() + log_likelihood()); log_prior() throws without priors
NegativeLogPosterior(P, v, pars) ==
    LET w == SetAll(P.descs, pars, 1, Len(P.descs), v)
        lp == LogPriorOp(P, w)
    IN  [ok |-> lp.ok,
         val |-> IF lp.ok THEN Negate(Plus(lp.val, LogLikelihood(w, P.store))) ELSE 0,
         vals |-> w]

\* the frame of a call of optimize: position (pc), arguments, locals, the
\* minimizer's x / fval, the GSL resources alive, the objective evaluations
\* made, and the result; further the calls made on the minimizer inside the
\* loop (trace), the resources freed, in order, and the point of the last
\* evaluation of the objective
OptFrame(pc, guess, maximum_iterations, iter, status, x, fval_set, fval, initial_minimum, live, evals, written, outcome, point, value) ==
    [pc |-> pc, guess |-> guess, maximum_iterations |-> maximum_iterations,
     iter |-> iter, status |-> status, x |-> x, fval_set |-> fval_set,
     fval |-> fval, initial_minimum |-> initial_minimum, live |-> live,
     evals |-> evals, written |-> written, outcome |-> outcome,
     point |-> point, value |-> value, trace |-> <<>>, freed |-> <<>>,
     evaluated |-> <<>>]

\* a call record carrying the frame or result record of the operation
CallOut(op, post, ok, out) ==
    [op |-> op, post |-> post, prior |-> NoPrior, nuisance |-> FALSE,
     name |-> "a", ok |-> ok, ret |-> FALSE, val |-> 0, trace |-> <<>>,
     pd |-> <<>>, out |-> out]

\* no call of optimize is under way
Idle == last.op = "optimize" => last.out.pc = "done"

\* optimize with the dimension check moved behind the write loop of the
\* first evaluation of the objective
OptimizeEnterLateCheck(P, v, guess, maximum_iterations, vertex) ==
    LET n == IF Len(guess) < Len(P.descs) THEN Len(guess) ELSE Len(P.descs)
    IN  [frame |-> OptFrame("done", guess, maximum_iterations, 0, "GSL_SUCCESS",
                            <<>>, FALSE, 0, 0, {"x"}, 1, TRUE, "dimension",
                            <<>>, 0),
         vals |-> SetAll(P.descs, guess, 1, n, v)]

\* optimize, lines 536-567: the dimension check, the starting vector x, the
\* objective at the starting point, the step sizes ss, the minimizer and
\* its set(), which evaluates the objective at a simplex vertex
OptimizeEnter(P, v, guess, maximum_iterations, vertex) ==
    IF Len(P.descs) # Len(guess)
    THEN [frame |-> OptFrame("done", guess, maximum_iterations, 0, "GSL_SUCCESS",
                             <<>>, FALSE, 0, 0, {}, 0, FALSE, "dimension",
                             <<>>, 0),
          vals |-> v]
    ELSE LET f == NegativeLogPosterior(P, v, guess)
             g == NegativeLogPosterior(P, f.vals, vertex)
         IN  IF ~f.ok
             THEN [frame |-> [OptFrame("done", guess, maximum_iterations, 0,
                                       "GSL_SUCCESS", <<>>, FALSE, 0, 0, {"x"},
                                       1, TRUE, "undefined_prior", <<>>, 0)
                                 EXCEPT !.evaluated = guess],
                   vals |-> f.vals]
             ELSE [frame |-> [OptFrame("loop", guess, maximum_iterations, 0,
                                       "GSL_SUCCESS", guess, FALSE, 0, f.val,
                                       {"x", "ss", "minim"}, 2, TRUE, "running",
                                       <<>>, 0)
                                 EXCEPT !.evaluated = vertex],
                   vals |-> g.vals]

\* one pass of the do-while, lines 570-589: iter++, iterate (a failure
\* breaks), the size test, and the loop test at the bottom; a successful
\* iterate evaluates the objective at a trial point and leaves the lowest
\* value seen in fval, its point in x
OptimizeStep(P, v, fr, failed, converged, trial) ==
    LET f == NegativeLogPosterior(P, v, trial)
        better == ~fr.fval_set \/ f.val < fr.fval
        status == IF converged THEN "GSL_SUCCESS" ELSE "GSL_CONTINUE"
    IN  IF failed
        THEN [frame |-> [fr EXCEPT !.iter = fr.iter + 1,
                                   !.status = "GSL_FAILURE",
                                   !.trace = Append(fr.trace, "iterate"),
                                   !.pc = "finish"],
              vals |-> v]
        ELSE [frame |-> [fr EXCEPT !.iter = fr.iter + 1,
                                   !.status = status,
                                   !.x = IF better THEN trial ELSE fr.x,
                                   !.fval = IF better THEN f.val ELSE fr.fval,
                                   !.fval_set = TRUE,
                                   !.evals = fr.evals + 1,
                                   !.evaluated = trial,
                                   !.trace = fr.trace \o <<"iterate", "test_size">>,
                                   !.pc = IF status = "GSL_CONTINUE"
                                             /\ fr.iter + 1 < fr.maximum_iterations
                                          THEN "loop" ELSE "finish"],
              vals |-> f.vals]

\* the comparison of lines 603-619 turned around
OptimizeReturnFlipped(fr, mode) ==
    IF mode <= fr.initial_minimum
    THEN [point |-> fr.guess, value |-> Negate(fr.initial_minimum)]
    ELSE [point |-> fr.x, value |-> Negate(mode)]

\* optimize, lines 603-619: the initial guess unless the minimizer's value
\* is strictly below the objective at the initial guess
OptimizeReturn(fr, mode) ==
    IF mode >= fr.initial_minimum
    THEN [point |-> fr.guess, value |-> Negate(fr.initial_minimum)]
    ELSE [point |-> fr.x, value |-> Negate(mode)]

\* lines 591-600 without gsl_multimin_fminimizer_free(minim)
OptimizeLeaveKeepMinimizer(fr, mode) ==
    LET r == OptimizeReturn(fr, mode)
    IN  [fr EXCEPT !.pc = "done", !.fval = mode,
                   !.live = fr.live \ {"x", "ss"},
                   !.freed = fr.freed \o <<"x", "ss">>,
                   !.outcome = "returned", !.point = r.point,
                   !.value = r.value]

\* optimize, lines 591-600: mode = minim->fval, the point from minim->x,
\* and the three resources released
OptimizeLeave(fr, mode) ==
    LET r == OptimizeReturn(fr, mode)
    IN  [fr EXCEPT !.pc = "done", !.fval = mode,
                   !.live = fr.live \ {"x", "ss", "minim"},
                   !.freed = fr.freed \o <<"x", "ss", "minim">>,
                   !.outcome = "returned", !.point = r.point,
                   !.value = r.value]

\* post.optimize(initial_guess, options) is entered
OptimizeBegin(p, guess, maximum_iterations, vertex) ==
    /\ Running
    /\ Idle
    /\ posts[p].exists
    /\ nsets < MaxSets
    /\ LET r == OptimizeEnter(posts[p], vals, guess, maximum_iterations, vertex)
       IN  /\ last' = CallOut("optimize", p, r.frame.outcome = "running", r.frame)
           /\ vals' = r.vals
    /\ nsets' = nsets + 1
    /\ UNCHANGED <<posts, nadds>>

\* the minimizer makes one iteration
OptimizeIterate(failed, converged, trial) ==
    /\ last.op = "optimize"
    /\ last.out.pc = "loop"
    /\ LET r == OptimizeStep(posts[last.post], vals, last.out, failed, converged, trial)
       IN  /\ last' = [last EXCEPT !.out = r.frame]
           /\ vals' = r.vals
    /\ UNCHANGED <<posts, nadds, nsets>>

\* the loop is left and optimize returns
OptimizeEnd(garbage) ==
    /\ last.op = "optimize"
    /\ last.out.pc = "finish"
    /\ last' = [last EXCEPT !.out = OptimizeLeave(last.out,
                       IF last.out.fval_set THEN last.out.fval ELSE garbage)]
    /\ UNCHANGED <<posts, vals, nadds, nsets>>

\* a Posterior built by add, then optimized
NextOptimize ==
    \/ \E prior \in OwnPriors, nuisance \in BOOLEAN :
          Idle /\ Add("orig", prior, nuisance)
    \/ \E guess \in Guesses, maximum_iterations \in 0 .. MaxIterations,
          vertex \in TrialPoints(Len(posts["orig"].descs)) :
          OptimizeBegin("orig", guess, maximum_iterations, vertex)
    \/ \E failed \in BOOLEAN, converged \in BOOLEAN,
          trial \in TrialPoints(Len(posts["orig"].descs)) :
          OptimizeIterate(failed, converged, trial)
    \/ \E garbage \in Garbage : OptimizeEnd(garbage)

SpecOptimize == Init /\ [][NextOptimize]_vars

\* the posterior (log-prior plus log-likelihood) with the parameters at pars
PosteriorAt(P, v, pars) == Negate(NegativeLogPosterior(P, v, pars).val)

\* C11: a returned optimize gives back the initial guess with the posterior
\* at the initial guess unless the minimizer's value is strictly below the
\* negated posterior there, and the minimizer's point with minus its value
\* otherwise; the returned value is never below the posterior at the
\* initial guess, and a returned point other than the initial guess comes
\* with a strictly larger value
C11_OptimizeNeverWorse ==
    (last.op = "optimize" /\ last.out.outcome = "returned") =>
        LET fr == last.out
            at_guess == PosteriorAt(posts[last.post], vals, fr.guess)
        IN  /\ Negate(fr.initial_minimum) = at_guess
            /\ fr.fval >= fr.initial_minimum =>
                  fr.point = fr.guess /\ fr.value = at_guess
            /\ fr.fval < fr.initial_minimum =>
                  fr.point = fr.x /\ fr.value = Negate(fr.fval)
            /\ fr.value >= at_guess
            /\ fr.point # fr.guess => fr.value > at_guess

\* optimize stopped at the iteration cap and returned a point other than the
\* initial guess
C11_Witness ==
    /\ last.op = "optimize"
    /\ last.out.outcome = "returned"
    /\ last.out.point # last.out.guess
    /\ last.out.status = "GSL_CONTINUE"

\* C12: optimize with an initial guess of the wrong length fails before any
\* parameter is written, before the objective is evaluated and before any
\* minimizer resource is allocated; all parameter values are unchanged
C12_OptimizeDimensionFirst ==
    [][(/\ Idle
        /\ nsets' = nsets + 1
        /\ last'.op = "optimize"
        /\ Len(last'.out.guess) # Len(posts[last'.post].descs)) =>
          /\ last'.out.outcome = "dimension"
          /\ last'.out.pc = "done"
          /\ ~last'.ok
          /\ ~last'.out.written
          /\ last'.out.evals = 0
          /\ last'.out.live = {}
          /\ vals' = vals]_vars

\* optimize was called on two descriptions with a guess of length one
C12_Witness ==
    /\ last.op = "optimize"
    /\ last.out.outcome = "dimension"
    /\ Len(posts[last.post].descs) = 2
    /\ Len(last.out.guess) = 1

\* C13: one call of optimize makes at most maximum_iterations iterations of
\* the simplex, for every maximum_iterations, 0 included
C13_IterationCap ==
    last.op = "optimize" => last.out.iter <= last.out.maximum_iterations

\* how often a resource occurs among those freed
TimesFreed(freed, resource) == Len(SelectSeq(freed, LAMBDA r : r = resource))

\* C27: every pass of the loop adds one to iter, which stays within the
\* larger of 1 and maximum_iterations, so the loop ends; a pass whose
\* iterate fails runs no size test and ends the loop; after any other pass
\* the loop goes on exactly when the size test said continue and iter is
\* below maximum_iterations; inside the loop nothing is freed, and leaving
\* it frees x, ss and the minimizer once each
C27_LoopStopsAndFrees ==
    [][(last.op = "optimize" /\ last'.op = "optimize" /\ last.out.pc # "done") =>
          LET fr == last.out
              to == last'.out
          IN  /\ fr.pc = "loop" =>
                    /\ fr.iter = 0 \/ fr.iter < fr.maximum_iterations
                    /\ to.iter = fr.iter + 1
                    /\ to.iter <= (IF fr.maximum_iterations = 0 THEN 1 ELSE fr.maximum_iterations)
                    /\ to.status = "GSL_FAILURE" =>
                          to.trace = Append(fr.trace, "iterate") /\ to.pc = "finish"
                    /\ to.status # "GSL_FAILURE" =>
                          to.trace = fr.trace \o <<"iterate", "test_size">>
                    /\ to.pc = "loop" <=>
                          (to.status = "GSL_CONTINUE" /\ to.iter < to.maximum_iterations)
                    /\ to.pc \in {"loop", "finish"}
                    /\ to.live = {"x", "ss", "minim"}
                    /\ to.freed = <<>>
              /\ fr.pc = "finish" =>
                    /\ to.pc = "done"
                    /\ to.trace = fr.trace
                    /\ to.live = {}
                    /\ \A r \in {"x", "ss", "minim"} : TimesFreed(to.freed, r) = 1]_vars

\* optimize returned after its second iteration failed
C27_Witness ==
    /\ last.op = "optimize"
    /\ last.out.outcome = "returned"
    /\ last.out.trace = <<"iterate", "test_size", "iterate">>
    /\ last.out.status = "GSL_FAILURE"
    /\ last.out.live = {}

\* C29: when optimize returns, every registered parameter holds the
\* coordinate of the point the objective was evaluated at last, whichever
\* point is returned
C29_ParametersAtLastEvaluation ==
    (last.op = "optimize" /\ last.out.outcome = "returned") =>
        LET descs == posts[last.post].descs
        IN  /\ Len(last.out.evaluated) = Len(descs)
            /\ \A i \in 1 .. Len(descs) :
                  vals[descs[i].store][descs[i].name] = last.out.evaluated[i]

\* the initial guess was returned for lack of improvement while a parameter
\* holds another value than the guess gives it
C29_Witness ==
    /\ last.op = "optimize"
    /\ last.out.outcome = "returned"
    /\ last.out.fval >= last.out.initial_minimum
    /\ last.out.point = last.out.guess
    /\ last.out.evaluated # last.out.point
    /\ \E i \in 1 .. Len(posts[last.post].descs) :
          vals[posts[last.post].descs[i].store][posts[last.post].descs[i].name]
             # last.out.guess[i]

\* --------------------------------------------------------- goodness_of_fit
\* points a caller passes to goodness_of_fit: below, at and above the
\* bounds of UnitRange
GofPoints ==
    {<<>>, <<-1>>, <<0>>, <<2>>, <<3>>,
     <<0, 2>>, <<2, 2>>, <<2, 3>>, <<3, 2>>, <<2, -1>>, <<-1, 3>>}

\* what the likelihood reports: number_of_observations(), the p-value of
\* bootstrap_p_value() (in tenths) and the significances of its blocks
LikelihoodReports ==
    {<<0, 1, <<>>>>, <<1, 2, <<1, 2>>>>, <<2, 1, <<1, 2>>>>, <<2, 2, <<>>>>,
     <<3, 2, <<1, 2>>>>}

\* gsl_cdf_chisq_Qinv(p, nu) and gsl_cdf_chisq_Q(x, nu): library functions
\* of two arguments, kept apart by a code that is one-to-one in (p, nu),
\* resp. (x, nu), and never 0
ChisqQinv(p, nu) == 10 * nu + p
ChisqQ(x, nu) == 1 + 100 * nu + x

\* the HDF5 file of goodness_of_fit; an attribute holds no value until one
\* is assigned to it
NoFile ==
    [exists |-> FALSE, parameters |-> <<>>, significances |-> <<>>,
     attributes |-> {}, chi2_significance |-> <<>>, chi2_simulation |-> <<>>]

\* dump_descriptions, the loop over the descriptions: log_prior(name) is
\* null when no kept prior describes the name, and as_string() of a
\* MultivariateGaussian throws
RECURSIVE DumpDescriptions(_, _)
DumpDescriptions(P, i) ==
    IF i > Len(P.descs) THEN "dumped"
    ELSE LET k == LogPriorByName(P.priors, P.descs[i].name, 1, 0)
         IN  IF k = 0 THEN "null_prior"
             ELSE IF P.priors[k].kind = "MultivariateGaussian" THEN "not_implemented"
             ELSE DumpDescriptions(P, i + 1)

\* the loop of lines 302-312 with the bounds themselves rejected
RECURSIVE SetPointStrict(_, _, _, _)
SetPointStrict(descs, parameter_values, i, v) ==
    IF i > Len(parameter_values) THEN [ok |-> TRUE, vals |-> v, written |-> i - 1]
    ELSE IF parameter_values[i] <= descs[i].min \/ parameter_values[i] >= descs[i].max
         THEN [ok |-> FALSE, vals |-> v, written |-> i - 1]
         ELSE SetPointStrict(descs, parameter_values, i + 1,
                       [v EXCEPT ![descs[i].store][descs[i].name] = parameter_values[i]])

\* the loop of lines 302-312 with every value checked before the first write
SetPointAtomic(descs, parameter_values, i, v) ==
    LET bad == {j \in i .. Len(parameter_values) :
                   parameter_values[j] < descs[j].min \/ parameter_values[j] > descs[j].max}
    IN  IF bad = {}
        THEN [ok |-> TRUE,
              vals |-> SetAll(descs, parameter_values, i, Len(parameter_values), v),
              written |-> Len(parameter_values)]
        ELSE [ok |-> FALSE, vals |-> v, written |-> 0]

\* goodness_of_fit, lines 302-312: value by value, the range check and
\* then the write
RECURSIVE SetPoint(_, _, _, _)
SetPoint(descs, parameter_values, i, v) ==
    IF i > Len(parameter_values) THEN [ok |-> TRUE, vals |-> v, written |-> i - 1]
    ELSE IF parameter_values[i] < descs[i].min \/ parameter_values[i] > descs[i].max
         THEN [ok |-> FALSE, vals |-> v, written |-> i - 1]
         ELSE SetPoint(descs, parameter_values, i + 1,
                       [v EXCEPT ![descs[i].store][descs[i].name] = parameter_values[i]])

\* the count of lines 279-285
RECURSIVE ScanParameters(_)
ScanParameters(descs) ==
    IF descs = <<>> THEN 0
    ELSE (IF Head(descs).nuisance THEN 0 ELSE 1) + ScanParameters(Tail(descs))

\* the difference taken in unsigned arithmetic (16 bits wide here), where a
\* negative difference wraps around to a large positive number
DegreesOfFreedomUnsigned(n_observations, n_parameters) ==
    (n_observations - n_parameters) % 65536

\* 1.0 * number_of_observations() - n_parameters, a difference of doubles
DegreesOfFreedom(n_observations, n_parameters) ==
    n_observations - n_parameters

RECURSIVE SumOfSquares(_)
SumOfSquares(s) ==
    IF s = <<>> THEN 0 ELSE Head(s) * Head(s) + SumOfSquares(Tail(s))

\* goodness_of_fit, lines 385-396: both assignments go through attr_sign,
\* the handle of "chi2_significance"
StoreSignificances(file, significances, total_significance_squared, chi_squared) ==
    IF ~file.exists THEN file
    ELSE [file EXCEPT !.significances = significances,
                      !.attributes = {"chi2_significance", "chi2_simulation"},
                      !.chi2_significance = <<chi_squared>>]

\* the pair returned with the scan-only p-value in second place
GofReturnScan(sim, p_analytical, p_analytical_scan, p_significance) ==
    <<sim, p_analytical_scan>>

\* goodness_of_fit, line 427
GofReturn(sim, p_analytical, p_analytical_scan, p_significance) ==
    <<sim, p_analytical>>

\* the record of a call of goodness_of_fit: arguments, how it ended, the
\* parameters written, what the likelihood reported, the locals of the
\* p-value computations, the file and the pair returned
GofFrame(parameter_values, output_file, outcome, written, n_observations, sim, chi_squared, p_analytical, p_analytical_scan, computed, significances, total_significance_squared, file, pair) ==
    [parameter_values |-> parameter_values, output_file |-> output_file,
     outcome |-> outcome, written |-> written,
     n_observations |-> n_observations, sim |-> sim,
     chi_squared |-> chi_squared, p_analytical |-> p_analytical,
     p_analytical_scan |-> p_analytical_scan, computed |-> computed,
     significances |-> significances,
     total_significance_squared |-> total_significance_squared,
     file |-> file, pair |-> pair]

\* a call that ended with an exception (or, for "null_prior", the process)
GofFailed(parameter_values, output_file, outcome, written, file) ==
    GofFrame(parameter_values, output_file, outcome, written, 0, 0, 0, 0, 0,
             {}, <<>>, 0, file, <<>>)

\* goodness_of_fit, lines 321-427, once the point is set and the log line
\* is written
GofStatistics(P, parameter_values, output_file, file, n_observations, sim, significances) ==
    LET dof == DegreesOfFreedom(n_observations, Len(P.descs))
        chi_squared == ChisqQinv(sim, n_observations)
        p_analytical == IF dof > 0 THEN ChisqQ(chi_squared, dof) ELSE 0
        dof_scan == DegreesOfFreedom(n_observations, ScanParameters(P.descs))
        p_analytical_scan == IF dof_scan > 0 THEN ChisqQ(chi_squared, dof_scan) ELSE 0
        total == SumOfSquares(significances)
        p_significance == IF dof > 0 THEN ChisqQ(total, dof) ELSE 0
        computed == (IF dof > 0 THEN {"p_analytical", "p_significance"} ELSE {})
                    \cup (IF dof_scan > 0
                          THEN {"p_analytical_scan", "p_significance_scan"} ELSE {})
    IN  GofFrame(parameter_values, output_file, "returned", Len(parameter_values),
                 n_observations, sim, chi_squared, p_analytical,
                 p_analytical_scan, computed, significances, total,
                 StoreSignificances(file, significances, total, chi_squared),
                 GofReturn(sim, p_analytical, p_analytical_scan, p_significance))

\* goodness_of_fit(parameter_values, simulated_datasets, output_file)
GoodnessOfFitOp(P, v, parameter_values, output_file, n_observations, sim, significances) ==
    IF Len(P.descs) # Len(parameter_values)
    THEN [out |-> GofFailed(parameter_values, output_file, "dimension", 0, NoFile),
          vals |-> v]
    ELSE LET dump == IF output_file THEN DumpDescriptions(P, 1) ELSE "dumped"
             created == [NoFile EXCEPT !.exists = output_file]
             file == [created EXCEPT !.parameters =
                         IF output_file THEN parameter_values ELSE <<>>]
             set == SetPoint(P.descs, parameter_values, 1, v)
         IN  IF dump # "dumped"
             THEN [out |-> GofFailed(parameter_values, output_file, dump, 0, created),
                   vals |-> v]
             ELSE IF ~set.ok
             THEN [out |-> GofFailed(parameter_values, output_file, "range",
                                     set.written, file),
                   vals |-> set.vals]
             ELSE IF ~LogPriorOp(P, set.vals).ok
             THEN [out |-> GofFailed(parameter_values, output_file,
                                     "undefined_prior", set.written, file),
                   vals |-> set.vals]
             ELSE [out |-> GofStatistics(P, parameter_values, output_file, file,
                                         n_observations, sim, significances),
                   vals |-> set.vals]

\* post.goodness_of_fit(parameter_values, simulated_datasets, output_file);
\* a null prior met while the descriptions are dumped ends the process
GoodnessOfFit(p, parameter_values, output_file, n_observations, sim, significances) ==
    /\ Running
    /\ last.op = "goodness_of_fit" => last.out.outcome # "null_prior"
    /\ posts[p].exists
    /\ nsets < MaxSets
    /\ LET r == GoodnessOfFitOp(posts[p], vals, parameter_values, output_file,
                                n_observations, sim, significances)
       IN  /\ last' = CallOut("goodness_of_fit", p, r.out.outcome = "returned", r.out)
           /\ vals' = r.vals
    /\ nsets' = nsets + 1
    /\ UNCHANGED <<posts, nadds>>

\* a Posterior built by add, then tested for goodness of fit
NextGof ==
    \/ \E prior \in OwnPriors, nuisance \in BOOLEAN :
          /\ last.op = "goodness_of_fit" => last.out.outcome # "null_prior"
          /\ Add("orig", prior, nuisance)
    \/ \E parameter_values \in GofPoints, output_file \in BOOLEAN,
          report \in LikelihoodReports :
          GoodnessOfFit("orig", parameter_values, output_file, report[1],
                        report[2], report[3])

SpecGof == Init /\ [][NextGof]_vars

\* parameter_values[i] lies outside the range of the i-th description
OutOfRange(descs, parameter_values, i) ==
    parameter_values[i] < descs[i].min \/ parameter_values[i] > descs[i].max

C28_RangeFailureNotAtomic ==
    [][(last'.op = "goodness_of_fit" /\ nsets' = nsets + 1) =>
        LET out == last'.out
            descs == posts[last'.post].descs
            pv == out.parameter_values
        IN  /\ out.outcome = "dimension" => vals' = vals
            /\ out.outcome = "range" =>
                  \E i \in 1 .. Len(pv) :
                     /\ OutOfRange(descs, pv, i)
                     /\ \A j \in 1 .. i - 1 : ~OutOfRange(descs, pv, j)
                     /\ out.written = i - 1
                     /\ \A j \in 1 .. i - 1 :
                           vals'[descs[j].store][descs[j].name] = pv[j]
                     /\ \A j \in i .. Len(pv) :
                           vals'[descs[j].store][descs[j].name]
                              = vals[descs[j].store][descs[j].name]
                     /\ \A s \in Stores, n \in Names :
                           (\A j \in 1 .. Len(descs) :
                               descs[j].store # s \/ descs[j].name # n) =>
                                  vals'[s][n] = vals[s][n]]_vars

\* a call failed on the second value of its point after it had written the
\* first
C28_Witness ==
    /\ last.op = "goodness_of_fit"
    /\ last.out.outcome = "range"
    /\ last.out.written = 1
    /\ Len(last.out.parameter_values) = 2
    /\ vals[posts[last.post].descs[1].store][posts[last.post].descs[1].name]
          = last.out.parameter_values[1]
    /\ vals[posts[last.post].descs[2].store][posts[last.post].descs[2].name]
          # last.out.parameter_values[2]

\* the call gets as far as the p-values: the point is valid, the
\* descriptions can be written to the file asked for, a prior is kept
GofReachesStatistics ==
    LET P == posts[last.post]
        pv == last.out.parameter_values
    IN  /\ Len(pv) = Len(P.descs)
        /\ \A i \in 1 .. Len(pv) : ~OutOfRange(P.descs, pv, i)
        /\ last.out.output_file => DumpDescriptions(P, 1) = "dumped"
        /\ P.priors # <<>>

\* C15: whatever n_observations and the number of parameters, more
\* parameters than observations included, goodness_of_fit returns; each
\* chi-squared p-value is computed exactly when the signed difference
\* n_observations - n_parameters (resp. - n_scan_parameters) is strictly
\* positive; the squared significances are summed all the same, and the
\* analytic p-value returned is 0 when the full difference is not positive
C15_NonPositiveDofNotFatal ==
    (last.op = "goodness_of_fit" /\ GofReachesStatistics) =>
        LET out == last.out
            n == Len(posts[last.post].descs)
            scan == Cardinality({i \in 1 .. n : ~posts[last.post].descs[i].nuisance})
        IN  /\ out.outcome = "returned"
            /\ "p_analytical" \in out.computed <=> out.n_observations - n > 0
            /\ "p_significance" \in out.computed <=> out.n_observations - n > 0
            /\ "p_analytical_scan" \in out.computed <=> out.n_observations - scan > 0
            /\ "p_significance_scan" \in out.computed <=> out.n_observations - scan > 0
            /\ out.total_significance_squared = SumOfSquares(out.significances)
            /\ Len(out.pair) = 2
            /\ out.n_observations - n <= 0 => out.pair[2] = 0

\* goodness_of_fit returned with more parameters than observations, one of
\* them a nuisance parameter, after summing two significances
C15_Witness ==
    /\ last.op = "goodness_of_fit"
    /\ last.out.outcome = "returned"
    /\ last.out.n_observations = 1
    /\ Len(posts[last.post].descs) = 2
    /\ \E i \in 1 .. 2 : posts[last.post].descs[i].nuisance
    /\ last.out.significances # <<>>

\* C16: a goodness_of_fit that returns gives back the p-value of the
\* likelihood's bootstrap routine and the analytic chi-squared p-value for
\* n_observations minus the number of all descriptions (0 when that
\* difference is not positive), not the scan-only and not the
\* significance-based p-value
C16_GofReturnsSimulatedAndAnalytic ==
    (last.op = "goodness_of_fit" /\ last.out.outcome = "returned") =>
        LET out == last.out
            dof == out.n_observations - Len(posts[last.post].descs)
        IN  /\ out.pair[1] = out.sim
            /\ out.pair[2] = IF dof > 0
                             THEN ChisqQ(ChisqQinv(out.sim, out.n_observations), dof)
                             ELSE 0

\* goodness_of_fit returned where the scan-only p-value exists and the full
\* one does not, and the significance-based one differs
C16_Witness ==
    /\ last.op = "goodness_of_fit"
    /\ last.out.outcome = "returned"
    /\ last.out.computed = {"p_analytical_scan", "p_significance_scan"}
    /\ last.out.significances # <<>>

\* C17: with an output file, the significance data set ends with the
\* attribute chi2_significance holding the sum of the squared significances
\* and the attribute chi2_simulation holding the chi-squared value of the
\* simulated p-value
C17_FileAttributes ==
    (last.op = "goodness_of_fit" /\ last.out.outcome = "returned"
     /\ last.out.output_file) =>
        /\ last.out.file.attributes = {"chi2_significance", "chi2_simulation"}
        /\ last.out.file.chi2_significance = <<last.out.total_significance_squared>>
        /\ last.out.file.chi2_simulation = <<last.out.chi_squared>>

\* ------------------------------------------------------ proposal_covariance
ScaleReductions == {1, 2, 3}

\* LogPrior::variance() of a kept prior, in twelfths; a MultivariateGaussian
\* reports the marginal variance of its (identity) covariance
Variance(prior) ==
    CASE prior.kind = "Flat" ->
            (prior.range[2] - prior.range[1]) * (prior.range[2] - prior.range[1])
      [] prior.kind = "CurtailedGauss" ->
            12 * (prior.knee[3] - prior.knee[2]) * (prior.knee[3] - prior.knee[2])
      [] prior.kind = "Scale" ->
            (prior.descs[1].max - prior.descs[1].min)
            * (prior.descs[1].max - prior.descs[1].min)
      [] prior.kind = "MultivariateGaussian" -> 12

\* a double kept as the fraction <<numerator, denominator>>
Fraction(numerator, denominator) == <<numerator, denominator>>

\* x /= y
DivideBy(x, y) == Fraction(x[1], x[2] * y)

\* proposal_covariance, lines 679-691: for each description in order the
\* variance of log_prior(name) goes to the diagonal and is divided by
\* scale_reduction squared unless the description is nuisance and
\* scale_nuisance is false; log_prior(name) can be the null pointer
RECURSIVE CovarianceLoop(_, _, _, _, _)
CovarianceLoop(P, par, scale_reduction, scale_nuisance, covariance) ==
    LET npar == Len(P.descs)
        def == P.descs[par + 1]
        k == LogPriorByName(P.priors, def.name, 1, 0)
        at == par + npar * par
        variance == Fraction(Variance(P.priors[k]), 1)
    IN  IF par >= npar THEN [null |-> FALSE, covariance |-> covariance]
        ELSE IF k = 0 THEN [null |-> TRUE, covariance |-> covariance]
        ELSE CovarianceLoop(P, par + 1, scale_reduction, scale_nuisance,
                 [covariance EXCEPT ![at] =
                     IF ~def.nuisance \/ scale_nuisance
                     THEN DivideBy(variance, scale_reduction * scale_reduction)
                     ELSE variance])

\* proposal_covariance(log_posterior, scale_reduction, scale_nuisance), the
\* matrix as the vector of npar * npar entries indexed from 0
ProposalCovarianceOp(P, scale_reduction, scale_nuisance) ==
    LET npar == Len(P.descs)
    IN  CovarianceLoop(P, 0, scale_reduction, scale_nuisance,
                       [at \in 0 .. npar * npar - 1 |-> Fraction(0, 1)])

\* the process was not ended by a call through a null prior pointer
NoNullCall == last.op = "proposal_covariance" => last.ok

\* proposal_covariance(post, scale_reduction, scale_nuisance); calling
\* variance() through a null pointer ends the process
ProposalCovariance(p, scale_reduction, scale_nuisance) ==
    /\ Running
    /\ NoNullCall
    /\ posts[p].exists
    /\ LET r == ProposalCovarianceOp(posts[p], scale_reduction, scale_nuisance)
       IN  last' = CallOut("proposal_covariance", p, ~r.null,
                           [scale_reduction |-> scale_reduction,
                            scale_nuisance |-> scale_nuisance,
                            covariance |-> r.covariance])
    /\ UNCHANGED <<posts, vals, nadds, nsets>>

\* a Posterior built by add, then asked for its proposal covariance
NextCovariance ==
    \/ \E prior \in CallerPriors, nuisance \in BOOLEAN :
          NoNullCall /\ Add("orig", prior, nuisance)
    \/ \E scale_reduction \in ScaleReductions, scale_nuisance \in BOOLEAN :
          ProposalCovariance("orig", scale_reduction, scale_nuisance)

SpecCovariance == Init /\ [][NextCovariance]_vars

\* C18: proposal_covariance returns n * n entries (n descriptions); the
\* diagonal entry of position i is the variance of that parameter's prior,
\* divided by scale_reduction squared unless the description is nuisance
\* and scale_nuisance is false; every other entry is 0
C18_ProposalCovariance ==
    last.op = "proposal_covariance" =>
        LET P == posts[last.post]
            n == Len(P.descs)
            out == last.out
            sr2 == out.scale_reduction * out.scale_reduction
        IN  /\ last.ok
            /\ DOMAIN out.covariance = 0 .. n * n - 1
            /\ \A i, j \in 0 .. n - 1 :
                  out.covariance[i + n * j] =
                     IF i # j THEN Fraction(0, 1)
                     ELSE LET k == LogPriorByName(P.priors, P.descs[i + 1].name, 1, 0)
                          IN  Fraction(Variance(P.priors[k]),
                                       IF P.descs[i + 1].nuisance /\ ~out.scale_nuisance
                                       THEN 1 ELSE sr2)

\* ------------------------------------------------- the factory functions
\* arguments a caller passes to the factories of the univariate priors
MadeNames == {"a"}
Bounds == 0 .. 2
Knees == 0 .. 2
Mu0s == {-2, 0, 2, 10}
Lambdas == {0, 1, 2}
EvaluationPoints == {0, 1, 2, 4, 5, 10, 20, 21}

\* the result of a factory call: the prior, or the exception thrown
Made(object) == [ok |-> TRUE, error |-> "none", prior |-> object]
Thrown(exception) == [ok |-> FALSE, error |-> exception, prior |-> NoPrior]

\* LogPrior::Flat: the constructor rejects an empty or inverted range
LogPriorFlat(parameters, name, range) ==
    IF range[1] >= range[2] THEN Thrown("RangeError")
    ELSE Made(Flat(parameters, name, range))

\* LogPrior::CurtailedGauss: the factory checks the knees, the constructor
\* the range
LogPriorCurtailedGauss(parameters, name, range, lower, central, upper) ==
    IF lower >= central THEN Thrown("InternalError")
    ELSE IF upper <= central THEN Thrown("InternalError")
    ELSE IF range[1] >= range[2] THEN Thrown("RangeError")
    ELSE Made(CurtailedGauss(parameters, name, range, lower, central, upper))

\* LogPrior::Scale accepting lambda = 1
LogPriorScaleLax(parameters, name, range, mu_0, lambda) ==
    IF mu_0 <= 0 THEN Thrown("InternalError")
    ELSE IF lambda < 1 THEN Thrown("InternalError")
    ELSE Made(Scale(parameters, name, range, mu_0, lambda))

\* LogPrior::Scale: the factory checks mu_0 and lambda, the constructor
\* nothing
LogPriorScale(parameters, name, range, mu_0, lambda) ==
    IF mu_0 <= 0 THEN Thrown("InternalError")
    ELSE IF lambda <= 1 THEN Thrown("InternalError")
    ELSE Made(Scale(parameters, name, range, mu_0, lambda))

\* the arguments of a factory call; args are the knees, resp. mu_0, lambda
Config(factory, parameter, bounds, arguments) ==
    [kind |-> factory, name |-> parameter, range |-> bounds, args |-> arguments]

\* the factory call of a configuration
MakePriorOp(parameters, cfg) ==
    CASE cfg.kind = "Flat" ->
            LogPriorFlat(parameters, cfg.name, cfg.range)
      [] cfg.kind = "CurtailedGauss" ->
            LogPriorCurtailedGauss(parameters, cfg.name, cfg.range,
                                   cfg.args[1], cfg.args[2], cfg.args[3])
      [] cfg.kind = "Scale" ->
            LogPriorScale(parameters, cfg.name, cfg.range, cfg.args[1], cfg.args[2])

\* prior = LogPrior::Flat / CurtailedGauss / Scale(parameters, ...); the
\* call record holds the prior made
MakePrior(factory, parameter, bounds, arguments) ==
    /\ LET cfg == Config(factory, parameter, bounds, arguments)
           r == MakePriorOp("S1", cfg)
       IN  last' = [CallOut("make", "orig", r.ok, [cfg |-> cfg, error |-> r.error])
                       EXCEPT !.prior = r.prior]
    /\ UNCHANGED <<posts, vals, nadds, nsets>>

\* a prior has been made and is held by the caller
PriorHeld == last.op \in {"make", "assign", "evaluate"} /\ last.ok

\* parameters[name] = x, for the parameter of the prior held
PriorAssign(x) ==
    /\ PriorHeld
    /\ vals' = [vals EXCEPT !["S1"][last.prior.names[1]] = x]
    /\ last' = [last EXCEPT !.op = "assign", !.val = 0]
    /\ UNCHANGED <<posts, nadds, nsets>>

\* (*prior)()
PriorEvaluate ==
    /\ PriorHeld
    /\ last' = [last EXCEPT !.op = "evaluate", !.val = Evaluate(last.prior, vals)]
    /\ UNCHANGED <<posts, vals, nadds, nsets>>

\* univariate priors are made, their parameter assigned and evaluated
NextPrior ==
    \/ \E name \in MadeNames, min \in Bounds, max \in Bounds :
          MakePrior("Flat", name, <<min, max>>, <<>>)
    \/ \E name \in MadeNames, min \in Bounds, max \in Bounds,
          lower \in Knees, central \in Knees, upper \in Knees :
          MakePrior("CurtailedGauss", name, <<min, max>>,
                    <<lower, central, upper>>)
    \/ \E name \in MadeNames, min \in Bounds, max \in Bounds,
          mu_0 \in Mu0s, lambda \in Lambdas :
          MakePrior("Scale", name, <<min, max>>, <<mu_0, lambda>>)
    \/ \E x \in EvaluationPoints : PriorAssign(x)
    \/ PriorEvaluate

SpecPrior == Init /\ [][NextPrior]_vars

\* the configurations the claim lists as invalid
InvalidConfig(cfg) ==
    CASE cfg.kind = "Flat" -> cfg.range[1] >= cfg.range[2]
      [] cfg.kind = "CurtailedGauss" ->
            \/ cfg.args[1] >= cfg.args[2]
            \/ cfg.args[3] <= cfg.args[2]
            \/ cfg.range[1] >= cfg.range[2]
      [] cfg.kind = "Scale" -> cfg.args[1] <= 0 \/ cfg.args[2] <= 1

\* C19: a factory call of Flat with min >= max, of CurtailedGauss with
\* lower >= central, upper <= central or min >= max, or of Scale with
\* mu_0 <= 0 or lambda <= 1 raises an error and yields no prior; every other
\* call yields a prior with exactly one description, of the name given and
\* not nuisance
C19_InvalidConfigRejected ==
    last.op = "make" =>
        /\ InvalidConfig(last.out.cfg) <=> ~last.ok
        /\ ~last.ok => last.prior = NoPrior /\ last.out.error # "none"
        /\ last.ok =>
              /\ last.prior.kind = last.out.cfg.kind
              /\ Len(last.prior.descs) = 1
              /\ last.prior.descs[1].name = last.out.cfg.name
              /\ ~last.prior.descs[1].nuisance

\* a Scale prior with lambda = 1 and a positive mu_0 was refused
C19_Witness ==
    /\ last.op = "make"
    /\ ~last.ok
    /\ last.out.cfg.kind = "Scale"
    /\ last.out.cfg.args[1] > 0
    /\ last.out.cfg.args[2] = 1

\* C20: the description of a Scale prior made with (mu_0, lambda) has the
\* range [mu_0 / lambda, mu_0 * lambda] whatever range was passed; its value
\* is -infinity exactly when the parameter is strictly below mu_0 / lambda
\* or strictly above mu_0 * lambda, and 1 / (2 ln(lambda) x) otherwise
C20_ScaleRangeAndValue ==
    (PriorHeld /\ last.prior.kind = "Scale") =>
        LET mu_0 == last.out.cfg.args[1]
            lambda == last.out.cfg.args[2]
            d == last.prior.descs[1]
            x == vals[d.store][d.name]
        IN  /\ d.min * lambda = mu_0
            /\ d.max = mu_0 * lambda
            /\ last.op = "evaluate" =>
                  /\ last.val = NegInf <=> (x < d.min \/ x > d.max)
                  /\ last.val # NegInf => last.val = 4 \div (ILog(lambda) * x)

\* a Scale prior made with a range other than [mu_0 / lambda, mu_0 * lambda]
\* was evaluated at its upper bound
C20_Witness ==
    /\ last.op = "evaluate"
    /\ last.prior.kind = "Scale"
    /\ last.out.cfg.range # <<last.prior.descs[1].min, last.prior.descs[1].max>>
    /\ vals[last.prior.descs[1].store][last.prior.descs[1].name] = last.prior.descs[1].max
    /\ last.val # NegInf

\* ------------------------------- the multivariate Gaussian and its buffers
\* the most prior instances a run constructs: an original and its clones
MaxInstances == 3

\* the arguments a caller passes to the multivariate constructor
MvgNames == {<<"a">>, <<"a", "b">>, <<"b", "a">>}
MvgMeans == {<<1>>, <<1, 1>>}
MatrixSizes == {1, 2}

\* what the decomposition of the covariance yields, and what the GSL error
\* handler of the process does when a GSL routine reports an error
LinalgResults == {"ok", "cholesky", "invert"}
ErrorHandlers == {"abort", "off"}

\* the members of a MultivariateGaussian that point to a GSL block
BufferFields == <<"mean", "covariance", "chol", "covariance_inv", "observables", "measurements", "measurements_2">>

\* a block of gsl_vector_alloc / gsl_matrix_alloc: how often it has been
\* freed, how often it was read after being freed, and what it holds
Buffer(data) == [released |-> 0, stale |-> 0, data |-> data]

Alloc(heap, data) == Append(heap, Buffer(data))

Free(heap, b) == [heap EXCEPT ![b].released = @ + 1]

ReadBuffer(heap, b) ==
    IF heap[b].released > 0 THEN [heap EXCEPT ![b].stale = @ + 1] ELSE heap

\* the result of a constructor call: how it ended, the computations made on
\* the covariance up to then, the heap and the members of the object
Constructed(outcome, error, trace, heap, bufs, object) ==
    [outcome |-> outcome, error |-> error, trace |-> trace, heap |-> heap,
     bufs |-> bufs, prior |-> object]

\* MultivariateGaussian(parameters, names, mean, covariance): the members are
\* initialised in the order of their declaration, so compute_norm() copies
\* and decomposes the covariance and the five blocks are allocated before the
\* body makes its three checks; cholesky() and invert_covariance() follow
MultivariateGaussianCtor(heap, parameters, names, mean, covariance, linalg, handler) ==
    LET dim == Len(names)
        size1 == heap[covariance].data[1]
        size2 == heap[covariance].data[2]
        mean_size == Len(heap[mean].data)
        badlen == size1 # dim \/ size2 # dim
        n == Len(heap)
        h1 == Alloc(heap, <<size1, size2>>)
        h2 == Alloc(h1, <<size1, size2>>)
        h3 == Alloc(h2, <<dim>>)
        h4 == Alloc(h3, <<dim>>)
        h5 == Alloc(h4, <<dim>>)
        bufs == [mean |-> mean, covariance |-> covariance, chol |-> n + 1,
                 covariance_inv |-> n + 2, observables |-> n + 3,
                 measurements |-> n + 4, measurements_2 |-> n + 5]
    IN  IF badlen /\ handler = "abort"
        THEN Constructed("aborted", "GSL_EBADLEN", <<"compute_norm">>, heap, bufs, NoPrior)
        ELSE IF size1 # size2
        THEN Constructed("thrown", "not_square", <<"compute_norm">>, h5, bufs, NoPrior)
        ELSE IF size1 # mean_size
        THEN Constructed("thrown", "covariance_dimension", <<"compute_norm">>, h5, bufs, NoPrior)
        ELSE IF dim # mean_size
        THEN Constructed("thrown", "mean_dimension", <<"compute_norm">>, h5, bufs, NoPrior)
        ELSE IF linalg = "cholesky"
        THEN IF handler = "abort"
             THEN Constructed("aborted", "GSL_EDOM", <<"compute_norm", "cholesky">>, h5, bufs, NoPrior)
             ELSE Constructed("thrown", "cholesky", <<"compute_norm", "cholesky">>, h5, bufs, NoPrior)
        ELSE IF linalg = "invert"
        THEN IF handler = "abort"
             THEN Constructed("aborted", "GSL_EDOM", <<"compute_norm", "cholesky", "invert_covariance">>, h5, bufs, NoPrior)
             ELSE Constructed("thrown", "invert", <<"compute_norm", "cholesky", "invert_covariance">>, h5, bufs, NoPrior)
        ELSE Constructed("made", "none", <<"compute_norm", "cholesky", "invert_covariance">>, h5, bufs,
                         MultivariateGaussian(parameters, names, heap[mean].data))

\* clone() handing the original's own mean and covariance to the copy
CloneBuffersShared(heap, bufs, dim) ==
    [heap |-> ReadBuffer(ReadBuffer(heap, bufs.mean), bufs.covariance),
     mean |-> bufs.mean, covariance |-> bufs.covariance]

\* MultivariateGaussian::clone: a fresh vector and a fresh matrix of
\* dimension _dim receive the contents of _mean and _covariance
CloneBuffers(heap, bufs, dim) ==
    LET h1 == Alloc(ReadBuffer(heap, bufs.mean), heap[bufs.mean].data)
        h2 == Alloc(ReadBuffer(h1, bufs.covariance), heap[bufs.covariance].data)
    IN  [heap |-> h2, mean |-> Len(heap) + 1, covariance |-> Len(heap) + 2]

\* ~MultivariateGaussian(): every one of the seven blocks is freed
RECURSIVE FreeAll(_, _, _)
FreeAll(heap, bufs, k) ==
    IF k > Len(BufferFields) THEN heap
    ELSE FreeAll(Free(heap, bufs[BufferFields[k]]), bufs, k + 1)

\* operator()() and sample() read the blocks of their own object
RECURSIVE ReadAll(_, _, _)
ReadAll(heap, bufs, k) ==
    IF k > Len(BufferFields) THEN heap
    ELSE ReadAll(ReadBuffer(heap, bufs[BufferFields[k]]), bufs, k + 1)

\* the calls on multivariate priors; the call record holds the heap, the
\* instances made so far and the arguments and result of the constructor
MvgOps == {"construct", "clone_prior", "destroy", "use"}

MvgRunning == last.op \in MvgOps /\ last.out.call.outcome # "aborted"

Instance(alive, parent, r) ==
    [alive |-> alive, parent |-> parent, prior |-> r.prior, bufs |-> r.bufs]

MvgCall(names, mean, size1, size2, linalg, handler, r) ==
    [names |-> names, mean |-> mean, size1 |-> size1, size2 |-> size2,
     linalg |-> linalg, handler |-> handler, outcome |-> r.outcome,
     error |-> r.error, trace |-> r.trace, prior |-> r.prior]

\* the caller allocates mean and covariance and passes them to
\* LogPrior::MultivariateGaussian(parameters, names, mean, covariance)
MvgConstruct(names, mean, size1, size2, linalg, handler) ==
    /\ last.op \notin MvgOps
    /\ LET heap == Alloc(Alloc(<<>>, mean), <<size1, size2>>)
           r == MultivariateGaussianCtor(heap, "S1", names, 1, 2, linalg, handler)
       IN  last' = CallOut("construct", "orig", r.outcome = "made",
                           [heap |-> r.heap,
                            insts |-> IF r.outcome = "made"
                                      THEN <<Instance(TRUE, 0, r)>> ELSE <<>>,
                            call |-> MvgCall(names, mean, size1, size2, linalg, handler, r)])
    /\ UNCHANGED <<posts, vals, nadds, nsets>>

\* insts[i]->clone(parameters)
MvgClone(i, parameters) ==
    /\ MvgRunning
    /\ i \in DOMAIN last.out.insts
    /\ last.out.insts[i].alive
    /\ Len(last.out.insts) < MaxInstances
    /\ LET o == last.out
           names == o.insts[i].prior.names
           b == CloneBuffers(o.heap, o.insts[i].bufs, Len(names))
           r == MultivariateGaussianCtor(b.heap, parameters, names, b.mean, b.covariance, "ok", o.call.handler)
       IN  last' = CallOut("clone_prior", "orig", r.outcome = "made",
                           [heap |-> r.heap,
                            insts |-> IF r.outcome = "made"
                                      THEN Append(o.insts, Instance(TRUE, i, r))
                                      ELSE o.insts,
                            call |-> [o.call EXCEPT !.outcome = r.outcome,
                                                    !.error = r.error,
                                                    !.trace = r.trace,
                                                    !.prior = r.prior]])
    /\ UNCHANGED <<posts, vals, nadds, nsets>>

\* the last LogPriorPtr to insts[i] goes away
MvgDestroy(i) ==
    /\ MvgRunning
    /\ i \in DOMAIN last.out.insts
    /\ last.out.insts[i].alive
    /\ last' = [last EXCEPT !.op = "destroy",
                            !.out.heap = FreeAll(@, last.out.insts[i].bufs, 1),
                            !.out.insts[i].alive = FALSE]
    /\ UNCHANGED <<posts, vals, nadds, nsets>>

\* (*insts[i])() or insts[i]->sample()
MvgUse(i) ==
    /\ MvgRunning
    /\ i \in DOMAIN last.out.insts
    /\ last.out.insts[i].alive
    /\ last' = [last EXCEPT !.op = "use",
                            !.out.heap = ReadAll(@, last.out.insts[i].bufs, 1)]
    /\ UNCHANGED <<posts, vals, nadds, nsets>>

\* a multivariate prior is constructed, cloned, used and destroyed
NextMvg ==
    \/ \E names \in MvgNames, mean \in MvgMeans, size1 \in MatrixSizes,
          size2 \in MatrixSizes, linalg \in LinalgResults, handler \in ErrorHandlers :
          MvgConstruct(names, mean, size1, size2, linalg, handler)
    \/ \E i \in 1 .. MaxInstances, parameters \in Stores : MvgClone(i, parameters)
    \/ \E i \in 1 .. MaxInstances : MvgDestroy(i)
    \/ \E i \in 1 .. MaxInstances : MvgUse(i)

SpecMvg == Init /\ [][NextMvg]_vars

\* C21: a construction whose covariance is not square, or whose covariance
\* dimension or number of names differs from the length of the mean, throws
\* from the constructor's checks before any computation was made on the
\* covariance; one whose decomposition or inversion fails throws as well;
\* every other construction yields a prior with one description per name,
\* in the order of the names
C21_ConstructionChecked ==
    last.op = "construct" =>
        LET c == last.out.call
            shape == \/ c.size1 # c.size2
                     \/ c.size1 # Len(c.mean)
                     \/ Len(c.names) # Len(c.mean)
        IN  /\ shape => c.outcome = "thrown" /\ c.trace = <<>>
            /\ (~shape /\ c.linalg # "ok") => c.outcome = "thrown"
            /\ (~shape /\ c.linalg = "ok") =>
                  /\ c.outcome = "made"
                  /\ Len(c.prior.descs) = Len(c.names)
                  /\ \A k \in 1 .. Len(c.names) : c.prior.descs[k].name = c.names[k]

\* C25: no block belongs to two members or two instances; a clone's mean and
\* covariance hold what its original's hold; the blocks of a live instance
\* are not freed, those of a destroyed one are freed exactly once, and no
\* block is read after it was freed
C25_BuffersOwnedOnce ==
    last.op \in MvgOps =>
        LET insts == last.out.insts
            heap == last.out.heap
            F == Range(BufferFields)
        IN  /\ \A i, j \in DOMAIN insts : \A f, g \in F :
                  insts[i].bufs[f] = insts[j].bufs[g] => i = j /\ f = g
            /\ \A i \in DOMAIN insts : \A f \in F :
                  heap[insts[i].bufs[f]].released = IF insts[i].alive THEN 0 ELSE 1
            /\ \A b \in DOMAIN heap : heap[b].stale = 0
            /\ \A i \in DOMAIN insts : insts[i].parent > 0 =>
                  /\ heap[insts[i].bufs.mean].data = heap[insts[insts[i].parent].bufs.mean].data
                  /\ heap[insts[i].bufs.covariance].data = heap[insts[insts[i].parent].bufs.covariance].data

\* an original was destroyed before its clone and the clone of that clone,
\* which were used afterwards and destroyed in turn
C25_Witness ==
    /\ last.op = "destroy"
    /\ Len(last.out.insts) = 3
    /\ last.out.insts[2].parent = 1
    /\ last.out.insts[3].parent = 2
    /\ \A i \in 1 .. 3 : ~last.out.insts[i].alive
    /\ Len(last.out.insts[1].prior.names) = 2

\* ------------------------------------------- a prior held by the caller
\* the priors the caller holds, all closing over the store S1
HeldPriors == {prior \in CallerPriors : prior.store = "S1"}

\* the result of as_string(): the pieces the text is concatenated from,
\* ToString standing for stringify() of a number
Text(parts) == [ok |-> TRUE, error |-> "none", text |-> parts]
NoText(exception) == [ok |-> FALSE, error |-> exception, text |-> <<>>]

\* Flat::as_string
FlatAsString(prior) ==
    Text(<<"Parameter: ", prior.names[1], ", prior type: flat, range: [",
           ToString(prior.range[1]), ",", ToString(prior.range[2]), "]">>)

\* CurtailedGauss::as_string
CurtailedGaussAsString(prior) ==
    LET central == prior.knee[2]
        sigma_lower == central - prior.knee[1]
        sigma_upper == prior.knee[3] - central
    IN  Text(<<"Parameter: ", prior.names[1], ", prior type: Gaussian, range: [",
               ToString(prior.range[1]), ",", ToString(prior.range[2]), "]",
               ", x = ", ToString(central)>>
             \o (IF sigma_upper = sigma_lower
                 THEN <<" +- ", ToString(sigma_upper)>>
                 ELSE <<" + ", ToString(sigma_upper), " - ", ToString(sigma_lower)>>))

\* Scale::as_string
ScaleAsString(prior) ==
    LET mu_0 == prior.scale[1]
        lambda == prior.scale[2]
    IN  Text(<<"Parameter: ", prior.names[1], ", prior type: Scale, range: [",
               ToString(mu_0 \div lambda), ",", ToString(mu_0 * lambda), "]",
               ", mu_0 = ", ToString(mu_0), ", lambda = ", ToString(lambda)>>)

\* MultivariateGaussian::as_string
MultivariateGaussianAsString(prior) == NoText("InternalError")

\* virtual std::string as_string() const
AsString(prior) ==
    CASE prior.kind = "Flat" -> FlatAsString(prior)
      [] prior.kind = "CurtailedGauss" -> CurtailedGaussAsString(prior)
      [] prior.kind = "Scale" -> ScaleAsString(prior)
      [] prior.kind = "MultivariateGaussian" -> MultivariateGaussianAsString(prior)

\* no clone has been made; a clone and the store it was asked for
NoClone == [prior |-> NoPrior, parameters |-> "S1"]
Cloned == [prior |-> last.out.clone, parameters |-> last.out.parameters]

\* the call record of a call on a held prior: the prior, its clone if one
\* was made, the object called, the parameter values before the call, the
\* calls made on parameter handles, and the result
Held(original, clone, target, before, events, value, text, outcome) ==
    [original |-> original, clone |-> clone.prior, parameters |-> clone.parameters, target |-> target,
     before |-> before, events |-> events, value |-> value, text |-> text,
     outcome |-> outcome]

HeldOps == {"hold", "clone_held", "assign_held", "evaluate_held", "sample_held", "describe", "persist"}

\* the object a call on "original" or "clone" is made on
Target(which) == IF which = "original" THEN last.out.original ELSE last.out.clone

CanCall(which) ==
    /\ last.op \in HeldOps
    /\ which = "clone" => last.out.clone # NoPrior

\* prior = LogPrior::Flat / CurtailedGauss / Scale / MultivariateGaussian(S1, ...)
Hold(prior) ==
    /\ last.op = "init"
    /\ last' = CallOut("hold", "orig", TRUE,
                       Held(prior, NoClone, "original", vals, <<>>, 0, <<>>, "none"))
    /\ UNCHANGED <<posts, vals, nadds, nsets>>

\* clone() calls the constructor of its class, not the factory: Flat and
\* CurtailedGauss check the range again, Scale checks nothing, and the
\* MultivariateGaussian gets copies of a mean and a covariance that passed
CloneConstruct(prior, parameters) ==
    IF prior.kind \in {"Flat", "CurtailedGauss"} /\ prior.range[1] >= prior.range[2]
    THEN Thrown("RangeError")
    ELSE Made(PriorClone(prior, parameters))

\* clone = prior->clone(parameters)
CloneHeld(parameters) ==
    /\ last.op \in HeldOps
    /\ last.out.clone = NoPrior
    /\ LET r == CloneConstruct(last.out.original, parameters)
       IN  last' = CallOut("clone_held", "orig", r.ok,
                           Held(last.out.original,
                                [prior |-> r.prior, parameters |-> parameters],
                                "original", vals, <<>>, 0, <<>>, r.error))
    /\ UNCHANGED <<posts, vals, nadds, nsets>>

\* parameters[name] = value in one of the two stores
AssignHeld(store, name, value) ==
    /\ last.op \in HeldOps
    /\ vals' = [vals EXCEPT ![store][name] = value]
    /\ last' = CallOut("assign_held", "orig", TRUE,
                       Held(last.out.original, Cloned, "original", vals,
                            <<>>, 0, <<>>, "none"))
    /\ UNCHANGED <<posts, nadds, nsets>>

\* (*prior)() or (*clone)()
EvaluateHeld(which) ==
    /\ CanCall(which)
    /\ last' = CallOut("evaluate_held", "orig", TRUE,
                       Held(last.out.original, Cloned, which, vals, <<>>,
                            Evaluate(Target(which), vals), <<>>, "none"))
    /\ UNCHANGED <<posts, vals, nadds, nsets>>

\* prior->sample() or clone->sample(), the generator yielding the draws us
SampleHeld(which, us) ==
    /\ CanCall(which)
    /\ Len(us) = Len(Target(which).names)
    /\ vals' = SampleOp(Target(which), us, vals)
    /\ last' = CallOut("sample_held", "orig", TRUE,
                       Held(last.out.original, Cloned, which, vals,
                            SampleTrace(Target(which)), 0, <<>>, "none"))
    /\ UNCHANGED <<posts, nadds, nsets>>

\* prior->as_string() or clone->as_string()
Describe(which) ==
    /\ CanCall(which)
    /\ LET r == AsString(Target(which))
       IN  last' = CallOut("describe", "orig", r.ok,
                           Held(last.out.original, Cloned, which, vals, <<>>,
                                0, r.text, r.error))
    /\ UNCHANGED <<posts, vals, nadds, nsets>>

\* a new Posterior is given the prior and dump_descriptions is called on
\* it; the record holds whether add kept the prior (1) or not (0)
Persist ==
    /\ last.op \in HeldOps
    /\ LET added == AddOp(NewPosterior("S1"), last.out.original, FALSE)
           r == DumpDescriptions(added.post, 1)
       IN  last' = CallOut("persist", "orig", r = "dumped",
                           Held(last.out.original, Cloned, "original", vals,
                                <<>>, IF added.ret THEN 1 ELSE 0, <<>>, r))
    /\ UNCHANGED <<posts, vals, nadds, nsets>>

\* a prior is made, cloned, and both are evaluated, sampled and described
NextHeld ==
    \/ \E prior \in HeldPriors : Hold(prior)
    \/ \E parameters \in Stores : CloneHeld(parameters)
    \/ \E store \in Stores, name \in Names, value \in Values : AssignHeld(store, name, value)
    \/ \E which \in {"original", "clone"} : EvaluateHeld(which)
    \/ \E which \in {"original", "clone"}, us \in [1 .. 1 -> Draws] \cup [1 .. 2 -> Draws] :
          SampleHeld(which, us)
    \/ \E which \in {"original", "clone"} : Describe(which)
    \/ Persist

SpecHeld == Init /\ [][NextHeld]_vars

\* the draws and the writes of a trace
DrawsOf(events) == SelectSeq(events, LAMBDA e : e[1] = "draw")
SetsOf(events) == SelectSeq(events, LAMBDA e : e[1] = "set")

\* C22: sample() takes one draw per name of the prior, from the parameter of
\* that name in the prior's own store and in the order of the names, takes
\* all draws before it sets a parameter, sets exactly the parameters of its
\* names, and leaves every other parameter value as it was; evaluate()
\* takes no draw and writes no parameter
C22_SampleDrawsAndWrites ==
    /\ last.op = "sample_held" =>
          LET prior == Target(last.out.target)
              k == Len(prior.names)
              events == last.out.events
          IN  /\ Len(DrawsOf(events)) = k
              /\ Len(SetsOf(events)) = k
              /\ events = DrawsOf(events) \o SetsOf(events)
              /\ \A i \in 1 .. k :
                    /\ DrawsOf(events)[i] = <<"draw", prior.store, prior.names[i]>>
                    /\ SetsOf(events)[i] = <<"set", prior.store, prior.names[i]>>
              /\ prior.kind # "MultivariateGaussian" => k = 1
              /\ \A s \in Stores, n \in Names :
                    vals[s][n] # last.out.before[s][n] =>
                        s = prior.store /\ n \in Range(prior.names)
    /\ last.op = "evaluate_held" =>
          last.out.events = <<>> /\ vals = last.out.before

\* a two-dimensional prior was sampled and both its parameters changed
C22_Witness ==
    /\ last.op = "sample_held"
    /\ Target(last.out.target).names = <<"a", "b">>
    /\ vals[Target(last.out.target).store]["a"] # last.out.before[Target(last.out.target).store]["a"]
    /\ vals[Target(last.out.target).store]["b"] # last.out.before[Target(last.out.target).store]["b"]

\* C23: as_string() returns a text naming the parameter, the type and the
\* numbers of the configuration for a prior of every kind, and
\* dump_descriptions succeeds on a Posterior keeping a prior of any kind
C23_DescribeNeverFails ==
    /\ last.op = "describe" =>
          /\ last.ok
          /\ Target(last.out.target).names[1] \in Range(last.out.text)
          /\ \E part \in Range(last.out.text) :
                part \in {", prior type: flat, range: [", ", prior type: Gaussian, range: [",
                          ", prior type: Scale, range: ["}
    /\ (last.op = "persist" /\ last.out.value = 1) =>
          last.out.outcome = "dumped"

\* C24: the clone has the kind and the configuration of the original and
\* its descriptions are those of the original bound to the new store; with
\* equal parameter values in the two stores both evaluate to the same value;
\* sample() on a clone bound to another store changes no value of the
\* original's store; clone() does not fail
C24_CloneSameConfiguration ==
    (last.op \in HeldOps /\ (last.op = "clone_held" \/ last.out.clone # NoPrior)) =>
        LET o == last.out.original
            c == last.out.clone
        IN  /\ c.kind = o.kind /\ c.names = o.names /\ c.range = o.range
            /\ c.knee = o.knee /\ c.scale = o.scale /\ c.mean = o.mean
            /\ Len(c.descs) = Len(o.descs)
            /\ c.store = last.out.parameters
            /\ \A i \in 1 .. Len(c.descs) :
                  /\ c.descs[i].store = last.out.parameters
                  /\ c.descs[i] = [o.descs[i] EXCEPT !.store = c.store]
            /\ last.op = "clone_held" => last.ok
            /\ (last.op = "evaluate_held" /\ vals[c.store] = vals[o.store]) =>
                  /\ last.out.value = Evaluate(o, vals)
                  /\ last.out.value = Evaluate(c, vals)
            /\ (last.op = "sample_held" /\ last.out.target = "clone" /\ c.store # o.store) =>
                  /\ vals[o.store] = last.out.before[o.store]
                  /\ \A e \in Range(last.out.events) : e[2] = c.store

\* a clone bound to the other store was sampled and its store changed
C24_Witness ==
    /\ last.op = "sample_held"
    /\ last.out.target = "clone"
    /\ last.out.clone.store = "S2"
    /\ last.out.clone.kind = "MultivariateGaussian"
    /\ vals["S2"] # last.out.before["S2"]

\* ------------------------------------- the two halves of CurtailedGauss
\* knee points and values of the parameter
GaussKnees == 0 .. 3
GaussPoints == 0 .. 3

\* a real number is a fraction <<numerator, denominator>> in lowest terms
RECURSIVE Gcd(_, _)
Gcd(m, n) == IF n = 0 THEN m ELSE Gcd(n, m % n)

Reduced(r) == <<r[1] \div Gcd(r[1], r[2]), r[2] \div Gcd(r[1], r[2])>>
Whole(n) == <<n, 1>>
Times(r, q) == Reduced(<<r[1] * q[1], r[2] * q[2]>>)
Over(r, q) == Reduced(<<r[1] * q[2], r[2] * q[1]>>)

\* values of _c_a, which the constructor computes from two values of the
\* Gaussian cumulative distribution: finite and positive
CaValues == {<<1, 1>>, <<3, 2>>, <<2, 5>>}

\* the constructor with _c_b(_sigma_upper / _sigma_lower * _c_a)
CurtailedGaussNormsInverted(lower, central, upper, c_a) ==
    LET sigma_lower == Whole(central - lower)
        sigma_upper == Whole(upper - central)
        c_b == Times(Over(sigma_upper, sigma_lower), c_a)
    IN  [sigma_lower |-> sigma_lower, sigma_upper |-> sigma_upper,
         c_a |-> c_a, c_b |-> c_b,
         norm_lower |-> Over(c_b, sigma_lower),
         norm_upper |-> Over(c_a, sigma_upper)]

\* the members the CurtailedGauss constructor derives: _sigma_lower,
\* _sigma_upper, _c_b = _sigma_lower / _sigma_upper * _c_a, and the two
\* normalisations std::log(c / std::sqrt(2 * M_PI) / sigma), each carried
\* as the fraction c / sigma its logarithm is taken of
CurtailedGaussNorms(lower, central, upper, c_a) ==
    LET sigma_lower == Whole(central - lower)
        sigma_upper == Whole(upper - central)
        c_b == Times(Over(sigma_lower, sigma_upper), c_a)
    IN  [sigma_lower |-> sigma_lower, sigma_upper |-> sigma_upper,
         c_a |-> c_a, c_b |-> c_b,
         norm_lower |-> Over(c_b, sigma_lower),
         norm_upper |-> Over(c_a, sigma_upper)]

\* norm - 0.5 * power_of<2>((x - _central) / sigma) of one half
HalfValue(branch, norm, sigma, x, central) ==
    [branch |-> branch, norm |-> norm,
     square |-> Times(Over(Whole((x - central) * (x - central)), sigma),
                      Over(Whole(1), sigma))]

\* CurtailedGauss::operator(): the lower half for x < _central, the upper
\* half otherwise
CurtailedGaussOperator(m, x, central) ==
    IF x < central
    THEN HalfValue("lower", m.norm_lower, m.sigma_lower, x, central)
    ELSE HalfValue("upper", m.norm_upper, m.sigma_upper, x, central)

\* prior = LogPrior::CurtailedGauss(parameters, "a", range, lower, central,
\* upper); the call record holds the arguments and the members derived
GaussMake(min, max, lower, central, upper, c_a) ==
    /\ last.op = "init"
    /\ LET r == LogPriorCurtailedGauss("S1", "a", <<min, max>>, lower, central, upper)
       IN  last' = CallOut("gauss_make", "orig", r.ok,
                           [range |-> <<min, max>>, knee |-> <<lower, central, upper>>,
                            error |-> r.error,
                            members |-> IF r.ok
                                        THEN CurtailedGaussNorms(lower, central, upper, c_a)
                                        ELSE CurtailedGaussNorms(0, 1, 2, c_a),
                            result |-> HalfValue("none", Whole(1), Whole(1), 0, 0)])
    /\ UNCHANGED <<posts, vals, nadds, nsets>>

GaussHeld == last.op \in {"gauss_make", "gauss_assign", "gauss_evaluate"} /\ last.ok

\* parameters["a"] = x
GaussAssign(x) ==
    /\ GaussHeld
    /\ vals' = [vals EXCEPT !["S1"]["a"] = x]
    /\ last' = [last EXCEPT !.op = "gauss_assign"]
    /\ UNCHANGED <<posts, nadds, nsets>>

\* (*prior)()
GaussEvaluate ==
    /\ GaussHeld
    /\ last' = [last EXCEPT !.op = "gauss_evaluate",
                            !.out.result = CurtailedGaussOperator(last.out.members,
                                               vals["S1"]["a"], last.out.knee[2])]
    /\ UNCHANGED <<posts, vals, nadds, nsets>>

\* a CurtailedGauss prior is made, its parameter assigned and evaluated
NextGauss ==
    \/ \E min \in Bounds, max \in Bounds, lower \in GaussKnees, central \in GaussKnees,
          upper \in GaussKnees, c_a \in CaValues :
          GaussMake(min, max, lower, central, upper, c_a)
    \/ \E x \in GaussPoints : GaussAssign(x)
    \/ GaussEvaluate

SpecGauss == Init /\ [][NextGauss]_vars

\* C26: the two normalisations of a CurtailedGauss are equal, so the values
\* of its lower and upper half at x = central are the same number, which is
\* what evaluate() returns there; evaluate() takes the lower half exactly
\* when the parameter is strictly below central
C26_ContinuousAtCentral ==
    GaussHeld =>
        LET m == last.out.members
            central == last.out.knee[2]
            x == vals["S1"]["a"]
        IN  /\ m.norm_lower = m.norm_upper
            /\ HalfValue("any", m.norm_lower, m.sigma_lower, central, central)
                  = HalfValue("any", m.norm_upper, m.sigma_upper, central, central)
            /\ last.op = "gauss_evaluate" =>
                  /\ last.out.result.branch = "lower" <=> x < central
                  /\ x = central =>
                        /\ last.out.result.norm = m.norm_lower
                        /\ last.out.result.norm = m.norm_upper
                        /\ last.out.result.square = Whole(0)

\* a prior with unequal widths was evaluated at its central value
C26_Witness ==
    /\ last.op = "gauss_evaluate"
    /\ last.out.members.sigma_lower # last.out.members.sigma_upper
    /\ vals["S1"]["a"] = last.out.knee[2]
    /\ last.out.result.branch = "upper"

====
